---- MODULE Spec2Model ----
(***************************************************************************)
(* Model of the roster front ends of turni-autogen:                        *)
(*   - src/streamlit_app.py     : the "Genera turni" run handler           *)
(*   - src/streamlit_app_ui.py  : normalize_fascia and the admin flow      *)
(* Text values are TLA+ strings, taken apart with Len, SubSeq and \o.      *)
(***************************************************************************)
EXTENDS Integers, Sequences, FiniteSets, TLC

(***************************************************************************)
(* Bounds of the model.                                                    *)
(***************************************************************************)
\* longest run of whitespace put in front of a fascia input
MaxPad == 1
\* longest run of whitespace put between two words of a fascia input
MaxGap == 1
\* the periods of the date runs span the years YearMin .. YearMin + MaxYearSpan
MaxYearSpan == 1
\* longest Day-1 list the extractor reports
MaxBlock == 2
\* longest free text typed in the manual field
MaxText == 3

(***************************************************************************)
(* Python str primitives used by the source.                               *)
(***************************************************************************)
Char(s, i) == SubSeq(s, i, i)

\* the whitespace characters of the model's alphabet (str.isspace)
IsSpace(c) == c \in {" ", "\t"}

UpperAlpha == "ABCDEFGHIJKLMNOPQRSTUVWXYZ"
LowerAlpha == "abcdefghijklmnopqrstuvwxyz"

\* str.casefold on one character of the (ASCII) alphabet
FoldChar(c) ==
    IF \E i \in 1..26 : Char(UpperAlpha, i) = c
    THEN Char(LowerAlpha, CHOOSE i \in 1..26 : Char(UpperAlpha, i) = c)
    ELSE c

\* str.upper on one character
UpChar(c) ==
    IF \E i \in 1..26 : Char(LowerAlpha, i) = c
    THEN Char(UpperAlpha, CHOOSE i \in 1..26 : Char(LowerAlpha, i) = c)
    ELSE c

RECURSIVE Casefold(_)
Casefold(s) == IF s = "" THEN "" ELSE FoldChar(Char(s, 1)) \o Casefold(Tail(s))

RECURSIVE Upper(_)
Upper(s) == IF s = "" THEN "" ELSE UpChar(Char(s, 1)) \o Upper(Tail(s))

RECURSIVE LStrip(_)
LStrip(s) ==
    IF s = "" THEN ""
    ELSE IF IsSpace(Char(s, 1)) THEN LStrip(Tail(s)) ELSE s

RECURSIVE RStrip(_)
RStrip(s) ==
    IF s = "" THEN ""
    ELSE IF IsSpace(Char(s, Len(s))) THEN RStrip(SubSeq(s, 1, Len(s) - 1)) ELSE s

\* str.strip()
Strip(s) == RStrip(LStrip(s))

\* str.split(): the maximal runs of non-whitespace, in order
RECURSIVE SplitWsAcc(_, _, _)
SplitWsAcc(s, cur, acc) ==
    IF s = "" THEN (IF cur = "" THEN acc ELSE Append(acc, cur))
    ELSE IF IsSpace(Char(s, 1))
         THEN SplitWsAcc(Tail(s), "", IF cur = "" THEN acc ELSE Append(acc, cur))
         ELSE SplitWsAcc(Tail(s), cur \o Char(s, 1), acc)

SplitWs(s) == SplitWsAcc(s, "", <<>>)

\* sep.join(parts)
RECURSIVE Join(_, _)
Join(sep, parts) ==
    IF Len(parts) = 0 THEN ""
    ELSE IF Len(parts) = 1 THEN parts[1]
    ELSE parts[1] \o sep \o Join(sep, Tail(parts))

\* sub in s
Contains(s, sub) ==
    \E i \in 1..(Len(s) - Len(sub) + 1) : SubSeq(s, i, i + Len(sub) - 1) = sub

(***************************************************************************)
(* normalize_fascia (streamlit_app_ui.py).                                 *)
(***************************************************************************)
FASCIA_OPTIONS == <<"Mattina", "Pomeriggio", "Notte", "Diurno", "Tutto il giorno">>

\* a Python value handed to normalize_fascia: None or a str
NoneVal == [isNone |-> TRUE, str |-> ""]
StrVal(s) == [isNone |-> FALSE, str |-> s]

NormResult(c, ch, un) == [canon |-> c, changed |-> ch, unknown |-> un]

\* key = " ".join(s.casefold().strip().split())
FasciaKey(s) == Join(" ", SplitWs(Strip(Casefold(s))))

\* the `direct` table without its "diurno" entry
DirectKeysDroppingDiurno ==
    {"mattina", "pomeriggio", "notte",
     "tutto il giorno", "tutto giorno", "all day", "giornata intera"}

\* the keys of the `direct` table
DirectKeys ==
    {"mattina", "pomeriggio", "notte", "diurno",
     "tutto il giorno", "tutto giorno", "all day", "giornata intera"}

\* direct[key]
Direct(key) ==
    CASE key = "mattina" -> "Mattina"
      [] key = "pomeriggio" -> "Pomeriggio"
      [] key = "notte" -> "Notte"
      [] key = "diurno" -> "Diurno"
      [] OTHER -> "Tutto il giorno"

\* the fallback of an unrecognised value, reported as an unchanged one
UnknownFallbackUnchanged == NormResult("Tutto il giorno", FALSE, TRUE)

\* the fallback of an unrecognised value with no canonical value at all
UnknownFallbackEmpty == NormResult("", TRUE, TRUE)

\* return "Tutto il giorno", True, True
UnknownFallback == NormResult("Tutto il giorno", TRUE, TRUE)

\* the fuzzy rules with the three discrete shifts tested before the two wide ones
FuzzyRulesDiscreteFirst(key) ==
    IF Contains(key, "matt") \/ Contains(key, "morning") \/ key \in {"am", "a.m."}
    THEN NormResult("Mattina", TRUE, FALSE)
    ELSE IF Contains(key, "pome") \/ Contains(key, "pom") \/ Contains(key, "afternoon")
            \/ key \in {"pm", "p.m."}
    THEN NormResult("Pomeriggio", TRUE, FALSE)
    ELSE IF Contains(key, "nott") \/ Contains(key, "night") \/ key = "n"
    THEN NormResult("Notte", TRUE, FALSE)
    ELSE IF Contains(key, "tutto") \/ Contains(key, "all") \/ Contains(key, "intera")
    THEN NormResult("Tutto il giorno", TRUE, FALSE)
    ELSE IF Contains(key, "diurn") \/ Contains(key, "daytime") \/ key = "d"
    THEN NormResult("Diurno", TRUE, FALSE)
    ELSE UnknownFallback

\* the fuzzy rules, in the order of the source
FuzzyRules(key) ==
    IF Contains(key, "tutto") \/ Contains(key, "all") \/ Contains(key, "intera")
    THEN NormResult("Tutto il giorno", TRUE, FALSE)
    ELSE IF Contains(key, "diurn") \/ Contains(key, "daytime") \/ key = "d"
    THEN NormResult("Diurno", TRUE, FALSE)
    ELSE IF Contains(key, "matt") \/ Contains(key, "morning") \/ key \in {"am", "a.m."}
    THEN NormResult("Mattina", TRUE, FALSE)
    ELSE IF Contains(key, "pome") \/ Contains(key, "pom") \/ Contains(key, "afternoon")
            \/ key \in {"pm", "p.m."}
    THEN NormResult("Pomeriggio", TRUE, FALSE)
    ELSE IF Contains(key, "nott") \/ Contains(key, "night") \/ key = "n"
    THEN NormResult("Notte", TRUE, FALSE)
    ELSE UnknownFallback

normalize_fascia(val) ==
    IF val.isNone THEN NormResult("", FALSE, FALSE)
    ELSE LET s == Strip(val.str) IN
         IF s = "" THEN NormResult("", FALSE, FALSE)
         ELSE LET key == FasciaKey(s) IN
              IF key \in DirectKeys
              THEN NormResult(Direct(key), Direct(key) # s, FALSE)
              ELSE FuzzyRules(key)

(***************************************************************************)
(* Inputs of normalize_fascia: words and phrases of the vocabulary, in     *)
(* three spellings, with whitespace around and between the words.          *)
(***************************************************************************)
FasciaWords ==
    {"Mattina", "Pomeriggio", "Notte", "Diurno", "Tutto", "il", "giorno",
     "all", "day", "giornata", "intera", "matt", "pome", "pom", "nott", "diurn",
     "d", "n", "am", "a.m.", "pm", "p.m.", "morning", "afternoon", "night",
     "daytime", "xyz", "sera"}

FasciaSecondWords == {"giorno", "day", "intera", "matt", "Notte", "diurn", "pm", "xyz"}

FasciaPhrases ==
    {<<>>}
    \cup {<<w>> : w \in FasciaWords}
    \cup {<<w, v>> : w \in FasciaWords, v \in FasciaSecondWords}
    \cup {<<"Tutto", "il", "giorno">>}

\* the strings of at most n whitespace characters
RECURSIVE WsStrings(_)
WsStrings(n) ==
    IF n = 0 THEN {""}
    ELSE WsStrings(n - 1) \cup {w \o c : w \in WsStrings(n - 1), c \in {" ", "\t"}}

Spellings(s) == {s, Upper(s), Casefold(s)}

FasciaInputs ==
    {NoneVal}
    \cup {StrVal(lead \o t \o trail) :
            lead \in WsStrings(MaxPad), trail \in {"", " "},
            t \in UNION {Spellings(Join(gap, p)) :
                           gap \in WsStrings(MaxGap), p \in FasciaPhrases}}

(***************************************************************************)
(* Dates: datetime.date, fromisoformat and timedelta.                      *)
(***************************************************************************)
\* st.number_input("Anno", min_value=2024, ...)
YearMin == 2024
\* st.number_input("Anno", ..., max_value=2035, ...)
YearMax == 2035

IsLeap(y) == (y % 4 = 0 /\ y % 100 # 0) \/ y % 400 = 0

DaysInMonth(y, m) ==
    IF m = 2 THEN (IF IsLeap(y) THEN 29 ELSE 28)
    ELSE IF m \in {4, 6, 9, 11} THEN 30 ELSE 31

MkDate(y, m, d) == [y |-> y, m |-> m, d |-> d]

\* dt - timedelta(days=1)
MinusOneDay(dt) ==
    IF dt.d > 1 THEN MkDate(dt.y, dt.m, dt.d - 1)
    ELSE IF dt.m > 1 THEN MkDate(dt.y, dt.m - 1, DaysInMonth(dt.y, dt.m - 1))
    ELSE MkDate(dt.y - 1, 12, 31)

Digits == "0123456789"

IsDigit(c) == \E i \in 1..10 : Char(Digits, i) = c

DigitVal(c) == (CHOOSE i \in 1..10 : Char(Digits, i) = c) - 1

AllDigits(s) == \A i \in 1..Len(s) : IsDigit(Char(s, i))

RECURSIVE NumVal(_)
NumVal(s) ==
    IF s = "" THEN 0
    ELSE NumVal(SubSeq(s, 1, Len(s) - 1)) * 10 + DigitVal(Char(s, Len(s)))

NoDate == MkDate(0, 0, 0)

\* datetime.fromisoformat(s).date() on the texts of the model (YYYY-MM-DD, or
\* text that is no ISO date); ok = FALSE stands for the ValueError
FromIso(s) ==
    IF /\ Len(s) = 10
       /\ Char(s, 5) = "-"
       /\ Char(s, 8) = "-"
       /\ AllDigits(SubSeq(s, 1, 4))
       /\ AllDigits(SubSeq(s, 6, 7))
       /\ AllDigits(SubSeq(s, 9, 10))
    THEN LET y == NumVal(SubSeq(s, 1, 4))
             m == NumVal(SubSeq(s, 6, 7))
             d == NumVal(SubSeq(s, 9, 10))
         IN  IF y >= 1 /\ m \in 1..12 /\ d \in 1..DaysInMonth(y, m)
             THEN [ok |-> TRUE, date |-> MkDate(y, m, d)]
             ELSE [ok |-> FALSE, date |-> NoDate]
    ELSE [ok |-> FALSE, date |-> NoDate]

\* the guard with the first day itself taken as the expected last date
GuardOutcomeNoTimedelta(last, y, m) ==
    IF last.isNone \/ last.str = "" THEN "absent"
    ELSE IF ~FromIso(last.str).ok THEN "raised"
    ELSE IF FromIso(last.str).date # MkDate(y, m, 1) THEN "mismatch"
    ELSE "contiguous"

\* the guard with a missing or unreadable last date taken as a mismatch
GuardOutcomeStrict(last, y, m) ==
    IF last.isNone \/ last.str = "" THEN "mismatch"
    ELSE IF ~FromIso(last.str).ok THEN "mismatch"
    ELSE IF FromIso(last.str).date # MinusOneDay(MkDate(y, m, 1)) THEN "mismatch"
    ELSE "contiguous"

\* the guard with its comparison turned round: a mismatch when the dates agree
GuardOutcomeInverted(last, y, m) ==
    IF last.isNone \/ last.str = "" THEN "absent"
    ELSE IF ~FromIso(last.str).ok THEN "raised"
    ELSE IF FromIso(last.str).date = MinusOneDay(MkDate(y, m, 1)) THEN "mismatch"
    ELSE "contiguous"

\* what the try block of the contiguity guard decides:
\*   "absent"     last_date_str is None or '': last_date is None
\*   "raised"     fromisoformat raised, swallowed by `except Exception: pass`
\*   "mismatch"   last_date != target_first - timedelta(days=1)
\*   "contiguous" otherwise
GuardOutcome(last, y, m) ==
    IF last.isNone \/ last.str = "" THEN "absent"
    ELSE IF ~FromIso(last.str).ok THEN "raised"
    ELSE IF FromIso(last.str).date # MinusOneDay(MkDate(y, m, 1)) THEN "mismatch"
    ELSE "contiguous"

(***************************************************************************)
(* Manual names and the merge of the run handler.                          *)
(***************************************************************************)
Range(seq) == {seq[i] : i \in 1..Len(seq)}

\* s.split(',')
RECURSIVE SplitCommaAcc(_, _, _)
SplitCommaAcc(s, cur, acc) ==
    IF s = "" THEN Append(acc, cur)
    ELSE IF Char(s, 1) = ","
         THEN SplitCommaAcc(Tail(s), "", Append(acc, cur))
         ELSE SplitCommaAcc(Tail(s), cur \o Char(s, 1), acc)

SplitComma(s) == SplitCommaAcc(s, "", <<>>)

\* [x.strip() for x in seq if x.strip()]
RECURSIVE StripNonEmpty(_)
StripNonEmpty(seq) ==
    IF Len(seq) = 0 THEN <<>>
    ELSE IF Strip(Head(seq)) = "" THEN StripNonEmpty(Tail(seq))
    ELSE <<Strip(Head(seq))>> \o StripNonEmpty(Tail(seq))

\* manual_names before the de-duplication: multiselect, then free text
ManualRaw(selected, text) ==
    StripNonEmpty(selected) \o StripNonEmpty(SplitComma(text))

\* a de-duplication that keeps the last occurrence of a name
RECURSIVE DedupKeepLast(_)
DedupKeepLast(seq) ==
    IF Len(seq) = 0 THEN <<>>
    ELSE IF Head(seq) \in Range(Tail(seq)) THEN DedupKeepLast(Tail(seq))
    ELSE <<Head(seq)>> \o DedupKeepLast(Tail(seq))

RECURSIVE DedupAcc(_, _)
DedupAcc(seq, acc) ==
    IF Len(seq) = 0 THEN acc
    ELSE DedupAcc(Tail(seq),
                  IF Head(seq) \in Range(acc) THEN acc ELSE Append(acc, Head(seq)))

\* seen = set(); [n for n in manual_names if not (n in seen or seen.add(n))]
Dedup(seq) == DedupAcc(seq, <<>>)

\* a merge that overwrites the list with the manual names
MergeNamesOverwrite(cur, names) == names

\* a merge that appends the first new name only
MergeNamesFirstOnly(cur, names) ==
    IF \E i \in 1..Len(names) : names[i] \notin Range(cur)
    THEN Append(cur, names[CHOOSE i \in 1..Len(names) :
                              /\ names[i] \notin Range(cur)
                              /\ \A j \in 1..(i - 1) : names[j] \in Range(cur)])
    ELSE cur

\* for n in names: if n not in cur: cur.append(n)
RECURSIVE MergeNames(_, _)
MergeNames(cur, names) ==
    IF Len(names) = 0 THEN cur
    ELSE MergeNames(IF Head(names) \in Range(cur) THEN cur ELSE Append(cur, Head(names)),
                    Tail(names))

(***************************************************************************)
(* Inputs of a generation run.                                             *)
(***************************************************************************)
\* the doctors offered by the multiselect (collect_doctors of the rules)
DoctorsUi == {"A", "B "}
\* the names the extractor may report
ExtractedNames == {"B", "C"}
\* the characters typed in the free-text field
TextAlphabet == {"A", "B", ",", " "}

RECURSIVE SeqsUpTo(_, _)
SeqsUpTo(S, n) ==
    IF n = 0 THEN {<<>>}
    ELSE SeqsUpTo(S, n - 1)
         \cup {Append(q, x) : q \in {r \in SeqsUpTo(S, n - 1) : Len(r) = n - 1}, x \in S}

\* a multiselect returns distinct options, in the order they were picked
Selections(S) == {q \in SeqsUpTo(S, Cardinality(S)) :
                    \A i, j \in 1..Len(q) : i # j => q[i] # q[j]}

RECURSIVE TextsUpTo(_)
TextsUpTo(n) ==
    IF n = 0 THEN {""}
    ELSE TextsUpTo(n - 1)
         \cup {t \o c : t \in {u \in TextsUpTo(n - 1) : Len(u) = n - 1}, c \in TextAlphabet}

Pad2(n) == Char(Digits, (n \div 10) + 1) \o Char(Digits, (n % 10) + 1)

\* date.isoformat()
IsoText(y, m, d) == Pad2(y \div 100) \o Pad2(y % 100) \o "-" \o Pad2(m) \o "-" \o Pad2(d)

NoFile == [kind |-> "none", last_date |-> NoneVal, block |-> <<>>]
BadFile == [kind |-> "bad", last_date |-> NoneVal, block |-> <<>>]
OkFile(last, block) == [kind |-> "ok", last_date |-> last, block |-> block]

\* last dates of the list runs: contiguous with 2026-02, and not contiguous
FewLastDates == {StrVal("2026-01-31"), StrVal("2026-01-30")}

\* last dates of the date runs: the first and the last days of every month
\* (days a month does not have included), no date at all, and text that is no date
ManyLastDates ==
    {NoneVal, StrVal(""), StrVal("n/a"), StrVal("31/01/2026")}
    \cup {StrVal(IsoText(y, m, d)) :
            y \in (YearMin - 1)..(YearMin + MaxYearSpan),
            m \in 1..12, d \in {1, 28, 29, 30, 31}}

DateYears == {y \in YearMin..YearMax : y <= YearMin + MaxYearSpan}

(***************************************************************************)
(* _summarize_stats (streamlit_app.py).  Python values are tagged records: *)
(* t is the type, s the text that str() gives (for None: nothing).         *)
(***************************************************************************)
\* a key that a dict does not have
PyAbsent == [t |-> "absent", s |-> ""]
PyNone == [t |-> "none", s |-> ""]
PyStr(x) == [t |-> "str", s |-> x]
PyInt(txt) == [t |-> "int", s |-> txt]
PyList(txt) == [t |-> "list", s |-> txt]

\* bool(v)
Truthy(v) ==
    CASE v.t \in {"absent", "none"} -> FALSE
      [] v.t = "str" -> v.s # ""
      [] v.t = "int" -> v.s # "0"
      [] OTHER -> v.s # "[]"

\* str(v)
StrOf(v) == IF v.t = "none" THEN "None" ELSE v.s

\* d.get(key): None for a key the dict does not have
GetOrNone(v) == IF v.t = "absent" THEN PyNone ELSE v

\* d.get(key, ""): "" for a key the dict does not have
GetOrEmpty(v) == IF v.t = "absent" THEN PyStr("") ELSE v

\* the value of one period in stats["months"]: a dict or anything else
PeriodDict(status, solver_error, autorelax) ==
    [isdict |-> TRUE, val |-> PyNone,
     status |-> status, solver_error |-> solver_error, autorelax |-> autorelax]
PeriodOther(v) ==
    [isdict |-> FALSE, val |-> v,
     status |-> PyAbsent, solver_error |-> PyAbsent, autorelax |-> PyAbsent]

\* stats["months"]: a dict (its items in iteration order) or anything else
MonthsDict(items) == [t |-> "dict", s |-> "", items |-> items]
MonthsOther(v) == [t |-> v.t, s |-> v.s, items |-> <<>>]

\* stats: a dict with the keys "status" and "months", or anything else
StatsDict(status, months) ==
    [isdict |-> TRUE, val |-> PyNone, status |-> status, months |-> months]
StatsOther(v) ==
    [isdict |-> FALSE, val |-> v, status |-> PyAbsent, months |-> MonthsOther(PyAbsent)]

\* no stats yet
NoStats == StatsOther(PyAbsent)

\* bool(stats.get("months"))
MonthsTruthy(m) ==
    IF m.t = "dict" THEN Len(m.items) > 0 ELSE Truthy([t |-> m.t, s |-> m.s])

\* str(se)[:400]
SolverErrorMax == 400

Truncate(s, n) == IF Len(s) > n THEN SubSeq(s, 1, n) ELSE s

\* month_summary[k] of a period value
MonthEntry(v) ==
    IF ~v.isdict
    THEN [status |-> PyStr(StrOf(v.val)), solver_error |-> PyAbsent, autorelax |-> PyAbsent]
    ELSE LET se == GetOrNone(v.solver_error)
         IN  [status |-> GetOrNone(v.status),
              solver_error |-> IF Truthy(se)
                               THEN PyStr(Truncate(StrOf(se), SolverErrorMax))
                               ELSE PyNone,
              autorelax |-> GetOrNone(v.autorelax)]

\* if se: greedy_months.append(k)
IsGreedy(v) == v.isdict /\ Truthy(GetOrNone(v.solver_error))

\* if "INFEAS" in str(v.get("status", "")).upper(): infeasible_months.append(k)
IsInfeasible(v) == v.isdict /\ Contains(Upper(StrOf(GetOrEmpty(v.status))), "INFEAS")

\* the loop over months.items()
RECURSIVE SummarizeMonths(_, _)
SummarizeMonths(items, acc) ==
    IF Len(items) = 0 THEN acc
    ELSE LET k == Head(items)[1]
             v == Head(items)[2]
         IN  SummarizeMonths(Tail(items),
                [greedy_months |-> IF IsGreedy(v) THEN Append(acc.greedy_months, k)
                                   ELSE acc.greedy_months,
                 infeasible_months |-> IF IsInfeasible(v)
                                       THEN Append(acc.infeasible_months, k)
                                       ELSE acc.infeasible_months,
                 months |-> Append(acc.months, <<k, MonthEntry(v)>>)])

\* what a call returns or raises
Summary(raised, full, status, acc) ==
    [raised |-> raised, full |-> full, status |-> status,
     greedy_months |-> acc.greedy_months,
     infeasible_months |-> acc.infeasible_months,
     months |-> acc.months]

EmptyAcc == [greedy_months |-> <<>>, infeasible_months |-> <<>>, months |-> <<>>]

NoSummary == Summary(FALSE, FALSE, PyAbsent, EmptyAcc)

_summarize_stats(st) ==
    IF ~st.isdict THEN Summary(FALSE, FALSE, PyStr("UNKNOWN"), EmptyAcc)
    ELSE IF ~MonthsTruthy(st.months)
         THEN Summary(FALSE, TRUE, GetOrNone(st.status), EmptyAcc)
    ELSE IF st.months.t # "dict"
         \* months.items() of a str, a list or a number: AttributeError
         THEN Summary(TRUE, FALSE, PyAbsent, EmptyAcc)
    ELSE Summary(FALSE, TRUE, GetOrNone(st.status),
                 SummarizeMonths(st.months.items, EmptyAcc))

(***************************************************************************)
(* Inputs of _summarize_stats.                                             *)
(***************************************************************************)
\* the longest stats["months"] of the inputs
MaxMonths == 2

\* the key of the i-th period of stats["months"]
PeriodKey(i) == "2026-" \o Pad2(i + 1)

RECURSIVE Repeat(_, _)
Repeat(c, n) ==
    IF n = 0 THEN ""
    ELSE IF n % 2 = 1 THEN c \o Repeat(c, n - 1)
    ELSE LET half == Repeat(c, n \div 2) IN half \o half

StatusValues == {PyAbsent, PyNone, PyStr("OPTIMAL"), PyStr("Infeasible")}

SolverErrorValues ==
    {PyAbsent, PyNone, PyStr(""), PyStr(Repeat("x", SolverErrorMax + 1))}

PeriodValues ==
    {PeriodDict(st, se, PyAbsent) : st \in StatusValues, se \in SolverErrorValues}
    \cup {PeriodOther(PyNone), PeriodOther(PyStr("INFEASIBLE"))}

\* the items of a dict: distinct keys, in the order the generator filled them in
MonthItems ==
    {[i \in 1..Len(q) |-> <<PeriodKey(i), q[i]>>] : q \in SeqsUpTo(PeriodValues, MaxMonths)}

MonthsValues ==
    {MonthsOther(v) : v \in {PyAbsent, PyNone, PyStr("2026-02"), PyList("[]"),
                             PyList("['2026-02']"), PyInt("0")}}
    \cup {MonthsDict(q) : q \in MonthItems}

StatsValues ==
    {StatsOther(v) : v \in {PyNone, PyStr("not a map"), PyList("[]")}}
    \cup {StatsDict(st, m) : st \in {PyAbsent, PyStr("OK")}, m \in MonthsValues}

(***************************************************************************)
(* The audit event and _github_audit_log (streamlit_app.py).               *)
(***************************************************************************)
\* an object that json.dumps cannot serialise
PyObj == [t |-> "obj", s |-> "<object>"]

\* traceback.format_exc()[:8000]
TracebackMax == 8000

Min(a, b) == IF a <= b THEN a ELSE b

NoEvent == [result |-> "none", error_type |-> "", tb_len |-> 0, stats |-> NoSummary]

\* {**base_event, "result": "ok", "duration_s": ..., "stats": _summarize_stats(stats)}
OkEvent(sm) == [result |-> "ok", error_type |-> "", tb_len |-> 0, stats |-> sm]

\* {**base_event, "result": "error", "error_type": ..., "traceback": format_exc()[:8000]}
ErrorEvent(type, tb) ==
    [result |-> "error", error_type |-> type, tb_len |-> Min(tb, TracebackMax),
     stats |-> NoSummary]

\* json.dumps(event) succeeds
Serializable(ev) ==
    /\ ev.stats.status.t # "obj"
    /\ \A i \in 1..Len(ev.stats.months) :
          /\ ev.stats.months[i][2].status.t # "obj"
          /\ ev.stats.months[i][2].autorelax.t # "obj"

SinkOutcomes == {"ok", "unconfigured", "http_error", "exception"}

AuditResult(raised, ok, msg) == [raised |-> raised, ok |-> ok, msg |-> msg]

NoAuditResult == AuditResult(FALSE, FALSE, "")

\* _github_audit_log without its last except clause
GithubAuditLogUncaught(ev, snk) ==
    IF snk = "unconfigured" THEN AuditResult(FALSE, FALSE, "github audit log not configured")
    ELSE IF ~Serializable(ev) THEN AuditResult(TRUE, FALSE, "TypeError")
    ELSE CASE snk = "ok" -> AuditResult(FALSE, TRUE, "ok")
           [] snk = "http_error" -> AuditResult(FALSE, FALSE, "HTTPError")
           [] OTHER -> AuditResult(TRUE, FALSE, "URLError")

\* the secrets are read, the body is built, the comment is posted: all in one try
_github_audit_log(ev, snk) ==
    IF snk = "unconfigured" THEN AuditResult(FALSE, FALSE, "github audit log not configured")
    ELSE IF ~Serializable(ev) THEN AuditResult(FALSE, FALSE, "TypeError")
    ELSE CASE snk = "ok" -> AuditResult(FALSE, TRUE, "ok")
           [] snk = "http_error" -> AuditResult(FALSE, FALSE, "HTTPError")
           [] OTHER -> AuditResult(FALSE, FALSE, "URLError")

\* what the lines after the generate_schedule call do: the event, the calls of
\* _github_audit_log and the place the script goes on at
Outcome(sm, ev, res, attempts, next) ==
    [summary |-> sm, event |-> ev, result |-> res, attempts |-> attempts,
     posts |-> IF res.ok THEN 1 ELSE 0,
     caption |-> (ev.result = "ok" /\ ~res.raised /\ ~res.ok),
     next |-> next]

\* the except branch without its call of _github_audit_log
AuditOutcomeSilentFailure(raisedGen, st, tb, snk) ==
    LET sm == IF raisedGen THEN NoSummary ELSE _summarize_stats(st)
        inExcept == raisedGen \/ sm.raised
    IN  IF inExcept
        THEN Outcome(sm, ErrorEvent(IF raisedGen THEN "Exception" ELSE "AttributeError", tb),
                     NoAuditResult, 0, "show_error")
        ELSE Outcome(sm, OkEvent(sm), _github_audit_log(OkEvent(sm), snk), 1, "show_success")

\* a second call of _github_audit_log when the first one was not accepted
AuditOutcomeResend(raisedGen, st, tb, snk) ==
    LET sm == IF raisedGen THEN NoSummary ELSE _summarize_stats(st)
        inExcept == raisedGen \/ sm.raised
        ev == IF inExcept
              THEN ErrorEvent(IF raisedGen THEN "Exception" ELSE "AttributeError", tb)
              ELSE OkEvent(sm)
        res == _github_audit_log(ev, snk)
    IN  Outcome(sm, ev, res, IF res.ok THEN 1 ELSE 2,
                IF inExcept THEN "show_error" ELSE "show_success")

\* lines 478-501: the rest of the try block and the except branch
AuditOutcome(raisedGen, st, tb, snk) ==
    LET sm == IF raisedGen THEN NoSummary ELSE _summarize_stats(st)
        inExcept == raisedGen \/ sm.raised
        ev == IF inExcept
              THEN ErrorEvent(IF raisedGen THEN "Exception" ELSE "AttributeError", tb)
              ELSE OkEvent(sm)
        res == _github_audit_log(ev, snk)
    IN  IF ~res.raised
        THEN Outcome(sm, ev, res, 1, IF inExcept THEN "show_error" ELSE "show_success")
        ELSE IF inExcept
        \* raised in the except branch: nothing catches it
        THEN Outcome(sm, ev, res, 1, "audit_aborted")
        \* raised in the try block: the except branch sends the failure event
        ELSE LET ev2 == ErrorEvent("Exception", tb)
                 res2 == _github_audit_log(ev2, snk)
             IN  Outcome(sm, ev2, res2, 2,
                         IF res2.raised THEN "audit_aborted" ELSE "show_error")

(***************************************************************************)
(* The validation of the run handler (streamlit_app.py).                   *)
(***************************************************************************)
Form(use_repo_rules, rules_up, use_custom_template, template_up, repo_rules, unav_up) ==
    [use_repo_rules |-> use_repo_rules, rules_up |-> rules_up,
     use_custom_template |-> use_custom_template, template_up |-> template_up,
     repo_rules_exists |-> repo_rules, unav_up |-> unav_up]

\* the repo rules, the automatic template, no unavailability file
DefaultForm == Form(TRUE, FALSE, FALSE, FALSE, TRUE, FALSE)

Forms ==
    {Form(a, b, c, d, e, f) : a \in BOOLEAN, b \in BOOLEAN, c \in BOOLEAN,
                              d \in BOOLEAN, e \in BOOLEAN, f \in BOOLEAN}

\* one of the three st.error / st.stop of the validation is reached
ValidationStops(f) ==
    \/ ~f.use_repo_rules /\ ~f.rules_up
    \/ f.use_custom_template /\ ~f.template_up
    \/ f.use_repo_rules /\ ~f.repo_rules_exists

\* the stats generate_schedule may return
GoodStats ==
    StatsDict(PyStr("OK"),
              MonthsDict(<<<<"2026-02", PeriodDict(PyStr("OPTIMAL"), PyNone, PyAbsent)>>>>))

RunStats ==
    {GoodStats,
     StatsOther(PyNone),
     StatsOther(PyStr("not a map")),
     StatsDict(PyStr("OK"), MonthsOther(PyList("['2026-02']"))),
     StatsDict(PyObj, MonthsOther(PyAbsent)),
     StatsDict(PyStr("OK"),
               MonthsDict(<<<<"2026-02", PeriodDict(PyStr("INFEASIBLE"), PyStr("x"), PyObj)>>>>))}

TracebackLens == {TracebackMax - 7000, TracebackMax, TracebackMax + 1}

(***************************************************************************)
(* The unavailability store and the doctor flow (streamlit_app_ui.py).     *)
(* The store is one file of rows; its version token is the hash of its     *)
(* content, which the model writes as the content itself.                  *)
(***************************************************************************)
Sessions == {1, 2}

\* doctors_default, the names of the login selectbox
LoginDoctors == {"A", "B", "C"}

\* the doctor_pins table of the secrets: a text and a number; "C" has no PIN
DoctorPinSecrets == [d \in {"A", "B"} |-> IF d = "A" THEN PyStr("1") ELSE PyInt("2")]

\* _get_doctor_pins(): {str(k): str(v) for k, v in pins.items()}
Pins == [d \in DOMAIN DoctorPinSecrets |-> StrOf(DoctorPinSecrets[d])]

\* the texts typed into the PIN field
PinTexts == {"", "1", "2"}

\* str(pins.get(doctor, ""))
ExpectedPin(doctor) == IF doctor \in DOMAIN Pins THEN Pins[doctor] ELSE ""

\* the comparison without the test that a PIN was typed
PinAcceptedEmptyToo(doctor, pin) == pin = ExpectedPin(doctor)

\* if pin and pin == expected
PinAccepted(doctor, pin) == pin # "" /\ pin = ExpectedPin(doctor)

\* date.today().month, and the month the selectbox offers besides
Today == 2
DoctorMonths == {2}

StoreRow(doctor, mm, date, shift) ==
    [doctor |-> doctor, month |-> mm, date |-> date, shift |-> shift]

NoFileStore == [exists |-> FALSE, rows |-> <<>>]
FileStore(rows) == [exists |-> TRUE, rows |-> rows]

\* the version token of the file: none when there is no file
NoSha == [none |-> TRUE, of |-> <<>>]
CurrentSha(st) == IF st.exists THEN [none |-> FALSE, of |-> st.rows] ELSE NoSha

\* load_store_from_github(): ([], None) when the file does not exist
load_store_from_github(st) == [rows |-> st.rows, sha |-> CurrentSha(st)]

\* github_utils.put_file: the write is refused when the token is not the current one
put_file(st, rows, sha) ==
    IF sha = CurrentSha(st)
    THEN [ok |-> TRUE, store |-> FileStore(rows)]
    ELSE [ok |-> FALSE, store |-> st]

\* the save that asks for the newest token right before it writes
SaveStoreWithNewestToken(st, rows, sha) == put_file(st, rows, CurrentSha(st))

\* save_store_to_github(rows, sha, message): put_file(..., sha=sha, text=to_csv(rows))
save_store_to_github(st, rows, sha) == put_file(st, rows, sha)

\* ustore.filter_doctor_month(rows, doctor, yy, mm)
filter_doctor_month(rows, doctor, mm) ==
    SelectSeq(rows, LAMBDA r : r.doctor = doctor /\ r.month = mm)

\* ustore.replace_doctor_month(rows, doctor, yy, mm, entries)
replace_doctor_month(rows, doctor, mm, entries) ==
    SelectSeq(rows, LAMBDA r : ~(r.doctor = doctor /\ r.month = mm))
    \o [i \in 1..Len(entries) |->
          StoreRow(doctor, mm, entries[i].date, entries[i].shift)]

\* a row of the editor: Data is a date or something else, Fascia a text
EditorRow(isdate, date, fascia) == [isdate |-> isdate, date |-> date, fascia |-> fascia]

\* the rows shown for (doctor, month): lines 324-349
DisplayRows(rows, doctor, mm) ==
    LET existing == filter_doctor_month(rows, doctor, mm)
    IN  IF Len(existing) = 0
        THEN <<EditorRow(TRUE, IsoText(2026, mm, 1), "Mattina")>>
        ELSE [i \in 1..Len(existing) |->
                LET canon == normalize_fascia(StrVal(existing[i].shift)).canon
                IN  EditorRow(FromIso(existing[i].date).ok, existing[i].date,
                              IF canon = "" THEN "Tutto il giorno" ELSE canon)]

\* the store after the rows were shown, had the display saved what it normalised
StoreAfterDisplaySaved(st, doctor, mm) ==
    IF ~st.exists THEN st
    ELSE FileStore([i \in 1..Len(st.rows) |->
            IF st.rows[i].doctor = doctor /\ st.rows[i].month = mm
            THEN StoreRow(doctor, mm, st.rows[i].date,
                          normalize_fascia(StrVal(st.rows[i].shift)).canon)
            ELSE st.rows[i]])

\* the store after the rows were shown: lines 321-362 call nothing that writes
StoreAfterDisplay(st, doctor, mm) == st

\* lines 373-385: the entries of one month; normalize_fascia(sh_raw).strip() raises
\* AttributeError (a tuple has no strip) at the first row whose Data is a date
BuildEntries(edited) ==
    IF \E i \in 1..Len(edited) : edited[i].isdate
    THEN [raised |-> TRUE, entries |-> <<>>]
    ELSE [raised |-> FALSE, entries |-> <<>>]

\* the rows the store may hold at first
MaxStoreRows == 2

RowChoices ==
    {StoreRow("A", 2, "2026-02-01", "matt"),
     StoreRow("A", 2, "n/a", "xyz"),
     StoreRow("B", 2, "2026-02-03", "Notte")}

\* no file, or a file of distinct rows
StoreChoices ==
    {NoFileStore}
    \cup {FileStore(q) : q \in {r \in SeqsUpTo(RowChoices, MaxStoreRows) :
                                    \A i, j \in 1..Len(r) : r[i] = r[j] => i = j}}

\* sel_default, then "Aggiungi" / "Rimuovi" of the month of the selectbox: lines 277-300
SelectedMonths(stored, btn, cur) ==
    LET sel_default == IF stored = {} THEN {Today} ELSE stored
    IN  CASE btn = "add" -> sel_default \cup {cur}
          [] btn = "remove" -> sel_default \ {cur}
          [] OTHER -> sel_default

\* the buttons of a rerun of a logged-in doctor; "none": an edit of a widget
DoctorButtons == {"none", "add", "remove", "save"}

\* what the user may leave in an editor: the rows as shown, no row, a row without date
EditorChoice(init, k) ==
    CASE k = 1 -> init
      [] k = 2 -> <<>>
      [] OTHER -> <<EditorRow(FALSE, "", "Notte")>>

\* conversions: the stored rows of (doctor, month) whose fascia the display changed
Conversions(rows, doctor, mm) ==
    LET existing == filter_doctor_month(rows, doctor, mm)
    IN  Cardinality({i \in 1..Len(existing) :
                        normalize_fascia(StrVal(existing[i].shift)).changed})

RECURSIVE ConversionsShown(_, _, _)
ConversionsShown(rows, doctor, months) ==
    IF months = {} THEN 0
    ELSE LET mm == CHOOSE x \in months : \A y \in months : x <= y
         IN  Conversions(rows, doctor, mm) + ConversionsShown(rows, doctor, months \ {mm})

\* the store after the tabs of all selected months were shown
RECURSIVE StoreAfterTabs(_, _, _)
StoreAfterTabs(st, doctor, months) ==
    IF months = {} THEN st
    ELSE LET mm == CHOOSE x \in months : \A y \in months : x <= y
         IN  StoreAfterTabs(StoreAfterDisplay(st, doctor, mm), doctor, months \ {mm})

\* lines 371-386: new_rows after the loop over edited_by_month, or the exception
RECURSIVE NewRows(_, _, _, _)
NewRows(rows, doctor, months, ed) ==
    IF months = {} THEN [raised |-> FALSE, rows |-> rows]
    ELSE LET mm == CHOOSE x \in months : \A y \in months : x <= y
             built == BuildEntries(ed[mm])
         IN  IF built.raised THEN [raised |-> TRUE, rows |-> rows]
             ELSE NewRows(replace_doctor_month(rows, doctor, mm, built.entries),
                          doctor, months \ {mm}, ed)

NoEdits == [mm \in {} |-> <<>>]

(***************************************************************************)
(* The PIN gate of the admin flow (streamlit_app_ui.py, lines 401-433).    *)
(***************************************************************************)
\* what the secrets hold as auth.admin_pin: nothing, a text or a number
AdminSecrets == {PyAbsent, PyStr(""), PyStr("9"), PyInt("9"), PyInt("0")}

\* str(_get_secret(("auth", "admin_pin"), ...) or "")
_get_admin_pin(secret) == IF Truthy(secret) THEN StrOf(secret) ELSE ""

\* the texts typed into the "PIN Admin" field
AdminPinTexts == {"", "9", "0"}

\* if pin != admin_pin: st.error(...); st.stop()
AdminPinRefused(pin, admin_pin) == pin # admin_pin

VARIABLES
    fascia_val,     \* the value being normalised
    fascia_res,     \* the result of normalize_fascia, once computed
    fascia_pc,      \* "in": not yet normalised; "out": normalised
    fascia_pass,    \* 1: a raw value; 2: the canonical value of pass 1
    entry,          \* "app": streamlit_app.py; "ui": the admin flow of streamlit_app_ui.py
    year,
    month,
    prev_file,      \* the uploaded prior output and what the extractor makes of it
    manual_selected,    \* the multiselect
    manual_text,        \* the free-text field (streamlit_app.py only)
    generate_btn,       \* the generate button was pressed in this run
    pc,                 \* the place of the run in the script
    carry,              \* the record returned by the extractor
    carryover_by_month, \* the map built for generate_schedule (one period)
    manual_names,       \* the manual names, once collected
    warned,             \* the contiguity warning was shown
    error_shown,        \* the error shown to the user, "" when none
    gen_called,         \* generate_schedule was called
    gen_arg,            \* its carryover_by_month argument
    gen_raised,         \* it raised
    audit_attempts,     \* calls of _github_audit_log
    form,               \* the widgets the validation reads (streamlit_app.py)
    sink,               \* what the audit sink does when it is written in this run
    tb_len,             \* the length of traceback.format_exc() if something raises
    gen_returns,        \* the stats generate_schedule returns if it returns
    stats,              \* the stats being summarised
    summary,            \* what _summarize_stats returned or raised
    sum_pc,             \* "in": stats not yet summarised; "out": summarised
    called,             \* the collaborators called so far in this run
    files_written,      \* the files the handler wrote so far in this run
    event,              \* the audit event of this run
    audit_result,       \* what _github_audit_log returned
    sink_posts,         \* the comments the sink accepted in this run
    caption_shown,      \* the caption "audit log not written" was shown
    success_shown,      \* st.success of the results was shown
    download_offered,   \* the download button of the output was shown
    traceback_shown,    \* the length of the traceback shown by st.code, -1: none
    store,              \* the unavailability file on GitHub
    doctor_auth_ok,     \* session_state.doctor_auth_ok of each session
    doctor_name,        \* session_state.doctor_name, "" for None
    doctor_selected_months, \* session_state.doctor_selected_months, {} when unset or empty
    doc_pc,             \* the place of each session's rerun: "idle", "loaded", "saving"
    doc_btn,            \* the button of the rerun
    store_rows,         \* the rows read in this rerun
    store_sha,          \* the version token read in this rerun
    edited_by_month,    \* the editors as returned by st.data_editor
    doc_conversions,    \* the rows of the table of normalised fasce last shown
    doc_outcome,        \* what the last rerun of each session showed
    login_pin,          \* session_state.login_pin: the PIN field of the login form, "" when not shown
    admin_secret,       \* auth.admin_pin of the secrets
    admin_auth_ok,      \* session_state.admin_auth_ok
    admin_pin_typed,    \* the PIN of the last submission of the admin form
    admin_outcome       \* how far the last rerun of the admin flow got

normVars == <<fascia_val, fascia_res, fascia_pc, fascia_pass>>

inputVars == <<entry, year, month, prev_file, manual_selected, manual_text, generate_btn,
               form, sink, tb_len, gen_returns>>

runVars == <<pc, carry, carryover_by_month, manual_names, warned, error_shown,
             gen_called, gen_arg, gen_raised, audit_attempts>>

sumVars == <<stats, summary, sum_pc>>

auditVars == <<called, files_written, event, audit_result, sink_posts, caption_shown,
               success_shown, download_offered, traceback_shown>>

docVars == <<store, doctor_auth_ok, doctor_name, doctor_selected_months, doc_pc, doc_btn,
             store_rows, store_sha, edited_by_month, doc_conversions, doc_outcome,
             login_pin>>

adminVars == <<admin_secret, admin_auth_ok, admin_pin_typed, admin_outcome>>

vars == <<normVars, inputVars, runVars, sumVars, auditVars, docVars, adminVars>>

NoResult == NormResult("", FALSE, FALSE)

NoRecord == [has |-> FALSE, block |-> <<>>]
Record(block) == [has |-> TRUE, block |-> block]

(***************************************************************************)
(* Initial states.                                                         *)
(***************************************************************************)
\* the admin flow has not run yet
AdminIdle(secrets) ==
    /\ admin_secret \in secrets
    /\ admin_auth_ok = FALSE
    /\ admin_pin_typed = ""
    /\ admin_outcome = ""

\* no doctor session has run yet
DocIdle(stores) ==
    /\ store \in stores
    /\ doctor_auth_ok = [s \in Sessions |-> FALSE]
    /\ doctor_name = [s \in Sessions |-> ""]
    /\ doctor_selected_months = [s \in Sessions |-> {}]
    /\ doc_pc = [s \in Sessions |-> "idle"]
    /\ doc_btn = [s \in Sessions |-> "none"]
    /\ store_rows = [s \in Sessions |-> <<>>]
    /\ store_sha = [s \in Sessions |-> NoSha]
    /\ edited_by_month = [s \in Sessions |-> NoEdits]
    /\ doc_conversions = [s \in Sessions |-> 0]
    /\ doc_outcome = [s \in Sessions |-> ""]
    /\ login_pin = [s \in Sessions |-> ""]

NormIdle ==
    /\ fascia_val = NoneVal
    /\ fascia_res = NoResult
    /\ fascia_pc = "idle"
    /\ fascia_pass = 1

RunStart ==
    /\ carry = NoRecord
    /\ carryover_by_month = NoRecord
    /\ manual_names = <<>>
    /\ warned = FALSE
    /\ error_shown = ""
    /\ gen_called = FALSE
    /\ gen_arg = NoRecord
    /\ gen_raised = FALSE
    /\ audit_attempts = 0
    /\ stats = NoStats
    /\ summary = NoSummary
    /\ sum_pc = "idle"
    /\ event = NoEvent
    /\ audit_result = NoAuditResult
    /\ sink_posts = 0
    /\ caption_shown = FALSE
    /\ success_shown = FALSE
    /\ download_offered = FALSE
    /\ traceback_shown = -1

\* nothing written, nobody called: the script is at its first line
Fresh ==
    /\ called = {}
    /\ files_written = 0

\* the rules file is written and the automatic template created (lines 350-397)
Prepared ==
    /\ called = {"create_month_template_xlsx"}
    /\ files_written = 1

\* the environment of a run: the sink accepts the event, the generator returns GoodStats
QuietEnv ==
    /\ form = DefaultForm
    /\ sink = "ok"
    /\ tb_len = TracebackMax + 1
    /\ gen_returns = GoodStats

\* a press of "Genera turni" in streamlit_app.py, at the carryover step
InitApp(years, months, files, manuals) ==
    /\ entry = "app"
    /\ year \in years
    /\ month \in months
    /\ prev_file \in files
    /\ \E man \in manuals : manual_selected = man[1] /\ manual_text = man[2]
    /\ generate_btn = TRUE
    /\ pc = "extract"
    /\ QuietEnv
    /\ Prepared
    /\ RunStart

\* a press of "Genera turni" in streamlit_app.py, at the first line of the handler
InitRun(forms, sinks, lens, returns, files, manuals) ==
    /\ entry = "app"
    /\ year = 2026
    /\ month = 2
    /\ prev_file \in files
    /\ \E man \in manuals : manual_selected = man[1] /\ manual_text = man[2]
    /\ generate_btn = TRUE
    /\ pc = "validate"
    /\ form \in forms
    /\ sink \in sinks
    /\ tb_len \in lens
    /\ gen_returns \in returns
    /\ Fresh
    /\ RunStart

\* a rerun of the admin flow of streamlit_app_ui.py, at the carryover step
InitUi(files, selections) ==
    /\ entry = "ui"
    /\ year = 2026
    /\ month = 2
    /\ prev_file \in files
    /\ manual_selected \in selections
    /\ manual_text = ""
    /\ generate_btn \in BOOLEAN
    /\ pc = "ui_extract"
    /\ QuietEnv
    /\ Fresh
    /\ RunStart

ListFiles ==
    {NoFile, BadFile}
    \cup {OkFile(last, b) : last \in FewLastDates, b \in SeqsUpTo(ExtractedNames, MaxBlock)}

DateFiles ==
    {NoFile, BadFile}
    \cup {OkFile(last, <<"B", "C">>) : last \in ManyLastDates}
    \cup {OkFile(last, <<>>) : last \in FewLastDates}

\* a few runs from the first line of the handler
InitRunFew ==
    InitRun({DefaultForm, Form(FALSE, FALSE, FALSE, FALSE, TRUE, FALSE),
             Form(TRUE, FALSE, TRUE, TRUE, TRUE, TRUE)},
            {"ok", "http_error"}, {TracebackMax + 1},
            {GoodStats, StatsOther(PyStr("not a map"))},
            {NoFile}, {<<<<>>, "">>})

Init ==
    /\ NormIdle
    /\ DocIdle({NoFileStore})
    /\ AdminIdle({PyStr("9")})
    /\ \/ InitApp({2026}, {2}, ListFiles, Selections(DoctorsUi) \X TextsUpTo(MaxText))
       \/ InitUi(ListFiles, Selections(DoctorsUi))
       \/ InitRunFew

InitDates ==
    /\ NormIdle
    /\ DocIdle({NoFileStore})
    /\ AdminIdle({PyStr("9")})
    /\ \/ InitApp(DateYears, 1..12, DateFiles, {<<<<>>, "">>, <<<<>>, " ,">>, <<<<"A">>, "">>})
       \/ InitUi({NoFile, BadFile, OkFile(StrVal("2026-01-30"), <<"B">>)}, {<<>>, <<"A">>})
       \/ InitRunFew

InitRunAll ==
    /\ NormIdle
    /\ DocIdle({NoFileStore})
    /\ AdminIdle({PyStr("9")})
    /\ InitRun(Forms, SinkOutcomes, TracebackLens, RunStats,
               {NoFile, BadFile, OkFile(StrVal("2026-01-31"), <<"B">>)},
               {<<<<>>, "">>, <<<<"A">>, "">>})

InitSum ==
    /\ NormIdle
    /\ DocIdle({NoFileStore})
    /\ AdminIdle({PyStr("9")})
    /\ entry = "app"
    /\ year = 2026
    /\ month = 2
    /\ prev_file = NoFile
    /\ manual_selected = <<>>
    /\ manual_text = ""
    /\ generate_btn = FALSE
    /\ pc = "summarize"
    /\ QuietEnv
    /\ Fresh
    /\ carry = NoRecord
    /\ carryover_by_month = NoRecord
    /\ manual_names = <<>>
    /\ warned = FALSE
    /\ error_shown = ""
    /\ gen_called = FALSE
    /\ gen_arg = NoRecord
    /\ gen_raised = FALSE
    /\ audit_attempts = 0
    /\ stats \in StatsValues
    /\ summary = NoSummary
    /\ sum_pc = "in"
    /\ event = NoEvent
    /\ audit_result = NoAuditResult
    /\ sink_posts = 0
    /\ caption_shown = FALSE
    /\ success_shown = FALSE
    /\ download_offered = FALSE
    /\ traceback_shown = -1

InitNorm ==
    /\ DocIdle({NoFileStore})
    /\ AdminIdle({PyStr("9")})
    /\ fascia_val \in FasciaInputs
    /\ fascia_res = NoResult
    /\ fascia_pc = "in"
    /\ fascia_pass = 1
    /\ entry = "ui"
    /\ year = 2026
    /\ month = 2
    /\ prev_file = NoFile
    /\ manual_selected = <<>>
    /\ manual_text = ""
    /\ generate_btn = FALSE
    /\ pc = "doctor"
    /\ QuietEnv
    /\ Fresh
    /\ RunStart

\* the doctor flow of streamlit_app_ui.py: two sessions, nobody logged in
InitDoctor ==
    /\ NormIdle
    /\ DocIdle(StoreChoices)
    /\ AdminIdle({PyStr("9")})
    /\ entry = "ui"
    /\ year = 2026
    /\ month = 2
    /\ prev_file = NoFile
    /\ manual_selected = <<>>
    /\ manual_text = ""
    /\ generate_btn = FALSE
    /\ pc = "doctor"
    /\ QuietEnv
    /\ Fresh
    /\ RunStart

(***************************************************************************)
(* normalize_fascia at work.                                               *)
(***************************************************************************)
\* canon_shift, changed, unknown = normalize_fascia(raw_shift)
Normalize ==
    /\ fascia_pc = "in"
    /\ fascia_res' = normalize_fascia(fascia_val)
    /\ fascia_pc' = "out"
    /\ UNCHANGED <<fascia_val, fascia_pass, inputVars, docVars, adminVars, runVars, sumVars, auditVars>>

\* the canonical value shown in the editor is normalised again on save
Renormalize ==
    /\ fascia_pc = "out"
    /\ fascia_pass = 1
    /\ fascia_val' = StrVal(fascia_res.canon)
    /\ fascia_res' = NoResult
    /\ fascia_pc' = "in"
    /\ fascia_pass' = 2
    /\ UNCHANGED <<inputVars, docVars, adminVars, runVars, sumVars, auditVars>>

(***************************************************************************)
(* _summarize_stats at work.                                               *)
(***************************************************************************)
\* "stats": _summarize_stats(stats)
Summarize ==
    /\ sum_pc = "in"
    /\ summary' = _summarize_stats(stats)
    /\ sum_pc' = "out"
    /\ UNCHANGED <<normVars, inputVars, docVars, adminVars, runVars, auditVars, stats>>

(***************************************************************************)
(* streamlit_app.py: the run handler.                                      *)
(***************************************************************************)
\* one of the three validations fails: st.error, st.stop
ValidateStops ==
    /\ pc = "validate"
    /\ ValidationStops(form)
    /\ error_shown' = "validation"
    /\ pc' = "invalid"
    /\ UNCHANGED <<carry, carryover_by_month, manual_names, warned,
                   gen_called, gen_arg, gen_raised, audit_attempts>>
    /\ UNCHANGED <<normVars, inputVars, docVars, adminVars, sumVars, auditVars>>

\* the three validations pass
ValidateOk ==
    /\ pc = "validate"
    /\ ~ValidationStops(form)
    /\ pc' = "prepare"
    /\ UNCHANGED <<carry, carryover_by_month, manual_names, warned, error_shown,
                   gen_called, gen_arg, gen_raised, audit_attempts>>
    /\ UNCHANGED <<normVars, inputVars, docVars, adminVars, sumVars, auditVars>>

\* the rules, the template and the unavailability file are put in the temporary directory
PrepareOk ==
    /\ pc = "prepare"
    /\ files_written' = 1 + (IF form.use_custom_template THEN 1 ELSE 0)
                          + (IF form.unav_up THEN 1 ELSE 0)
    /\ called' = IF form.use_custom_template THEN called
                 ELSE called \cup {"create_month_template_xlsx"}
    /\ pc' = "extract"
    /\ UNCHANGED <<carry, carryover_by_month, manual_names, warned, error_shown,
                   gen_called, gen_arg, gen_raised, audit_attempts>>
    /\ UNCHANGED <<event, audit_result, sink_posts, caption_shown, success_shown,
                   download_offered, traceback_shown>>
    /\ UNCHANGED <<normVars, inputVars, docVars, adminVars, sumVars>>

\* create_month_template_xlsx raises: nothing catches it, the run ends
PrepareRaises ==
    /\ pc = "prepare"
    /\ ~form.use_custom_template
    /\ files_written' = 1
    /\ called' = called \cup {"create_month_template_xlsx"}
    /\ error_shown' = "exception"
    /\ pc' = "prepare_aborted"
    /\ UNCHANGED <<carry, carryover_by_month, manual_names, warned,
                   gen_called, gen_arg, gen_raised, audit_attempts>>
    /\ UNCHANGED <<event, audit_result, sink_posts, caption_shown, success_shown,
                   download_offered, traceback_shown>>
    /\ UNCHANGED <<normVars, inputVars, docVars, adminVars, sumVars>>

\* prev_out_up is None
ExtractSkip ==
    /\ pc = "extract"
    /\ prev_file.kind = "none"
    /\ pc' = "merge"
    /\ UNCHANGED <<carry, carryover_by_month, manual_names, warned, error_shown,
                   gen_called, gen_arg, gen_raised, audit_attempts>>
    /\ UNCHANGED <<normVars, inputVars, docVars, adminVars, sumVars, auditVars>>

\* extract_carryover_from_output_xlsx raises: nothing catches it, the run ends
ExtractRaises ==
    /\ pc = "extract"
    /\ prev_file.kind = "bad"
    /\ files_written' = files_written + 1
    /\ called' = called \cup {"extract_carryover_from_output_xlsx"}
    /\ pc' = "aborted"
    /\ error_shown' = "exception"
    /\ UNCHANGED <<carry, carryover_by_month, manual_names, warned,
                   gen_called, gen_arg, gen_raised, audit_attempts>>
    /\ UNCHANGED <<event, audit_result, sink_posts, caption_shown, success_shown,
                   download_offered, traceback_shown>>
    /\ UNCHANGED <<normVars, inputVars, docVars, adminVars, sumVars>>

\* carry = extract_carryover_from_output_xlsx(...)
ExtractOk ==
    /\ pc = "extract"
    /\ prev_file.kind = "ok"
    /\ files_written' = files_written + 1
    /\ called' = called \cup {"extract_carryover_from_output_xlsx"}
    /\ carry' = Record(prev_file.block)
    /\ pc' = "guard"
    /\ UNCHANGED <<carryover_by_month, manual_names, warned, error_shown,
                   gen_called, gen_arg, gen_raised, audit_attempts>>
    /\ UNCHANGED <<event, audit_result, sink_posts, caption_shown, success_shown,
                   download_offered, traceback_shown>>
    /\ UNCHANGED <<normVars, inputVars, docVars, adminVars, sumVars>>

\* the try block of the contiguity guard, then carryover_by_month = {key: carry}
Guard ==
    /\ pc = "guard"
    /\ LET outcome == GuardOutcome(prev_file.last_date, year, month)
           cleared == IF outcome = "mismatch" THEN Record(<<>>) ELSE carry
       IN  /\ carry' = cleared
           /\ warned' = (outcome = "mismatch")
           /\ carryover_by_month' = cleared
    /\ pc' = "merge"
    /\ UNCHANGED <<manual_names, error_shown, gen_called, gen_arg, gen_raised,
                   audit_attempts>>
    /\ UNCHANGED <<normVars, inputVars, docVars, adminVars, sumVars, auditVars>>

\* the manual names are collected and merged into the period's record
Merge ==
    /\ pc = "merge"
    /\ LET names == Dedup(ManualRaw(manual_selected, manual_text))
       IN  /\ manual_names' = names
           /\ carryover_by_month' =
                IF Len(names) = 0 THEN carryover_by_month
                ELSE IF ~carryover_by_month.has THEN Record(names)
                ELSE Record(MergeNames(carryover_by_month.block, names))
           /\ carry' =
                IF Len(names) # 0 /\ carryover_by_month.has
                THEN Record(MergeNames(carryover_by_month.block, names))
                ELSE carry
    /\ pc' = "generate"
    /\ UNCHANGED <<warned, error_shown, gen_called, gen_arg, gen_raised, audit_attempts>>
    /\ UNCHANGED <<normVars, inputVars, docVars, adminVars, sumVars, auditVars>>

\* stats, log_path = generate_schedule(..., carryover_by_month=carryover_by_month)
GenerateOk ==
    /\ pc = "generate"
    /\ gen_called' = TRUE
    /\ gen_arg' = carryover_by_month
    /\ gen_raised' = FALSE
    /\ called' = called \cup {"generate_schedule"}
    /\ stats' = gen_returns
    /\ pc' = "audit"
    /\ UNCHANGED <<carry, carryover_by_month, manual_names, warned, error_shown,
                   audit_attempts>>
    /\ UNCHANGED <<files_written, event, audit_result, sink_posts, caption_shown,
                   success_shown, download_offered, traceback_shown>>
    /\ UNCHANGED <<normVars, inputVars, docVars, adminVars, summary, sum_pc>>

\* generate_schedule raises
GenerateRaises ==
    /\ pc = "generate"
    /\ gen_called' = TRUE
    /\ gen_arg' = carryover_by_month
    /\ gen_raised' = TRUE
    /\ called' = called \cup {"generate_schedule"}
    /\ pc' = "audit"
    /\ UNCHANGED <<carry, carryover_by_month, manual_names, warned, error_shown,
                   audit_attempts>>
    /\ UNCHANGED <<files_written, event, audit_result, sink_posts, caption_shown,
                   success_shown, download_offered, traceback_shown>>
    /\ UNCHANGED <<normVars, inputVars, docVars, adminVars, sumVars>>

\* the event is built and sent to the audit sink: the rest of the try block
\* (lines 478-487) or the except branch up to its call of _github_audit_log
Audit ==
    /\ pc = "audit"
    /\ \E o \in {AuditOutcome(gen_raised, stats, tb_len, sink)} :
           /\ summary' = o.summary
           /\ sum_pc' = IF gen_raised THEN sum_pc ELSE "out"
           /\ event' = o.event
           /\ audit_result' = o.result
           /\ audit_attempts' = audit_attempts + o.attempts
           /\ sink_posts' = sink_posts + o.posts
           /\ caption_shown' = o.caption
           /\ error_shown' = IF o.next = "audit_aborted" THEN "exception" ELSE error_shown
           /\ pc' = o.next
    /\ UNCHANGED <<carry, carryover_by_month, manual_names, warned,
                   gen_called, gen_arg, gen_raised>>
    /\ UNCHANGED <<called, files_written, success_shown, download_offered,
                   traceback_shown>>
    /\ UNCHANGED <<normVars, inputVars, docVars, adminVars, stats>>

\* st.error, st.code(event["traceback"]), st.stop
ShowError ==
    /\ pc = "show_error"
    /\ error_shown' = "generation"
    /\ traceback_shown' = event.tb_len
    /\ pc' = "gen_error"
    /\ UNCHANGED <<carry, carryover_by_month, manual_names, warned,
                   gen_called, gen_arg, gen_raised, audit_attempts>>
    /\ UNCHANGED <<called, files_written, event, audit_result, sink_posts,
                   caption_shown, success_shown, download_offered>>
    /\ UNCHANGED <<normVars, inputVars, docVars, adminVars, sumVars>>

\* st.success, the solver summary and the download button (lines 504-526);
\* (stats or {}).get of a str raises after the success message
ShowSuccess ==
    /\ pc = "show_success"
    /\ success_shown' = TRUE
    /\ LET getRaises == ~stats.isdict /\ Truthy(stats.val)
       IN  /\ download_offered' = ~getRaises
           /\ error_shown' = IF getRaises THEN "exception" ELSE error_shown
           /\ pc' = IF getRaises THEN "results_aborted" ELSE "success"
    /\ UNCHANGED <<carry, carryover_by_month, manual_names, warned,
                   gen_called, gen_arg, gen_raised, audit_attempts>>
    /\ UNCHANGED <<called, files_written, event, audit_result, sink_posts,
                   caption_shown, traceback_shown>>
    /\ UNCHANGED <<normVars, inputVars, docVars, adminVars, sumVars>>

(***************************************************************************)
(* streamlit_app_ui.py: the admin flow from the carryover step on.         *)
(***************************************************************************)
\* prev_out is None
UiExtractSkip ==
    /\ pc = "ui_extract"
    /\ prev_file.kind = "none"
    /\ pc' = "ui_manual"
    /\ UNCHANGED <<carry, carryover_by_month, manual_names, warned, error_shown,
                   gen_called, gen_arg, gen_raised, audit_attempts>>
    /\ UNCHANGED <<normVars, inputVars, docVars, adminVars, sumVars, auditVars>>

\* carry_info = tg.extract_carryover_from_output_xlsx(...); carryover_by_month[mk] = carry_info
UiExtractOk ==
    /\ pc = "ui_extract"
    /\ prev_file.kind = "ok"
    /\ carry' = Record(prev_file.block)
    /\ carryover_by_month' = Record(prev_file.block)
    /\ pc' = "ui_manual"
    /\ UNCHANGED <<manual_names, warned, error_shown,
                   gen_called, gen_arg, gen_raised, audit_attempts>>
    /\ files_written' = files_written + 1
    /\ called' = called \cup {"extract_carryover_from_output_xlsx"}
    /\ UNCHANGED <<event, audit_result, sink_posts, caption_shown, success_shown,
                   download_offered, traceback_shown>>
    /\ UNCHANGED <<normVars, inputVars, docVars, adminVars, sumVars>>

\* the extractor raises: except Exception shows the error and the script goes on
UiExtractRaises ==
    /\ pc = "ui_extract"
    /\ prev_file.kind = "bad"
    /\ error_shown' = "carryover"
    /\ pc' = "ui_manual"
    /\ UNCHANGED <<carry, carryover_by_month, manual_names, warned,
                   gen_called, gen_arg, gen_raised, audit_attempts>>
    /\ files_written' = files_written + 1
    /\ called' = called \cup {"extract_carryover_from_output_xlsx"}
    /\ UNCHANGED <<event, audit_result, sink_posts, caption_shown, success_shown,
                   download_offered, traceback_shown>>
    /\ UNCHANGED <<normVars, inputVars, docVars, adminVars, sumVars>>

\* the manual fallback: setdefault, then append every name not yet in the list
UiManual ==
    /\ pc = "ui_manual"
    /\ manual_names' = manual_selected
    /\ carryover_by_month' =
         IF Len(manual_selected) = 0 THEN carryover_by_month
         ELSE Record(MergeNames(carryover_by_month.block, manual_selected))
    /\ carry' =
         IF Len(manual_selected) # 0 /\ carry.has
         THEN Record(MergeNames(carryover_by_month.block, manual_selected))
         ELSE carry
    /\ pc' = "ui_generate"
    /\ UNCHANGED <<warned, error_shown, gen_called, gen_arg, gen_raised, audit_attempts>>
    /\ UNCHANGED <<normVars, inputVars, docVars, adminVars, sumVars, auditVars>>

\* the generate button was not pressed: the script ends
UiIdle ==
    /\ pc = "ui_generate"
    /\ ~generate_btn
    /\ pc' = "ui_idle"
    /\ UNCHANGED <<carry, carryover_by_month, manual_names, warned, error_shown,
                   gen_called, gen_arg, gen_raised, audit_attempts>>
    /\ UNCHANGED <<normVars, inputVars, docVars, adminVars, sumVars, auditVars>>

\* the template or the unavailability step raises before generate_schedule
UiPrepareRaises ==
    /\ pc = "ui_generate"
    /\ generate_btn
    /\ error_shown' = "generation"
    /\ pc' = "ui_error"
    /\ UNCHANGED <<carry, carryover_by_month, manual_names, warned,
                   gen_called, gen_arg, gen_raised, audit_attempts>>
    /\ UNCHANGED <<normVars, inputVars, docVars, adminVars, sumVars, auditVars>>

\* tg.generate_schedule(..., carryover_by_month=carryover_by_month or None) returns;
\* st.success(... stats.get('status') ...) raises inside the try when stats is no dict
UiGenerateOk ==
    /\ pc = "ui_generate"
    /\ generate_btn
    /\ gen_called' = TRUE
    /\ gen_arg' = carryover_by_month
    /\ gen_raised' = FALSE
    /\ called' = called \cup {"generate_schedule"}
    /\ stats' = gen_returns
    /\ success_shown' = gen_returns.isdict
    /\ download_offered' = gen_returns.isdict
    /\ error_shown' = IF gen_returns.isdict THEN error_shown ELSE "generation"
    /\ pc' = IF gen_returns.isdict THEN "ui_success" ELSE "ui_error"
    /\ UNCHANGED <<carry, carryover_by_month, manual_names, warned, audit_attempts>>
    /\ UNCHANGED <<files_written, event, audit_result, sink_posts, caption_shown,
                   traceback_shown>>
    /\ UNCHANGED <<normVars, inputVars, docVars, adminVars, summary, sum_pc>>

\* tg.generate_schedule raises: except Exception shows the error
UiGenerateRaises ==
    /\ pc = "ui_generate"
    /\ generate_btn
    /\ gen_called' = TRUE
    /\ gen_arg' = carryover_by_month
    /\ gen_raised' = TRUE
    /\ error_shown' = "generation"
    /\ pc' = "ui_error"
    /\ UNCHANGED <<carry, carryover_by_month, manual_names, warned, audit_attempts>>
    /\ called' = called \cup {"generate_schedule"}
    /\ UNCHANGED <<files_written, event, audit_result, sink_posts, caption_shown,
                   success_shown, download_offered, traceback_shown>>
    /\ UNCHANGED <<normVars, inputVars, docVars, adminVars, sumVars>>

(***************************************************************************)
(* Specifications.                                                         *)
(***************************************************************************)
(***************************************************************************)
(* The doctor flow of streamlit_app_ui.py, lines 217-396: one rerun of a   *)
(* session is a login step, or a load, a display and, when "Salva" was     *)
(* pressed, a save.  The reruns of the two sessions interleave.            *)
(***************************************************************************)
DocRunEnds(s, outcome) ==
    /\ doc_pc' = [doc_pc EXCEPT ![s] = "idle"]
    /\ doc_btn' = [doc_btn EXCEPT ![s] = "none"]
    /\ store_rows' = [store_rows EXCEPT ![s] = <<>>]
    /\ store_sha' = [store_sha EXCEPT ![s] = NoSha]
    /\ edited_by_month' = [edited_by_month EXCEPT ![s] = NoEdits]
    /\ doc_outcome' = [doc_outcome EXCEPT ![s] = outcome]

\* "Accedi" with the PIN of the doctor: lines 252-257
DoctorLogin(s) ==
    /\ pc = "doctor"
    /\ doc_pc[s] = "idle"
    /\ ~doctor_auth_ok[s]
    /\ \E doctor \in LoginDoctors, pin \in PinTexts :
          /\ PinAccepted(doctor, pin)
          /\ doctor_name' = [doctor_name EXCEPT ![s] = doctor]
          /\ login_pin' = [login_pin EXCEPT ![s] = pin]
    /\ doctor_auth_ok' = [doctor_auth_ok EXCEPT ![s] = TRUE]
    /\ DocRunEnds(s, "logged_in")
    /\ UNCHANGED <<store, doctor_selected_months, doc_conversions>>
    /\ UNCHANGED <<normVars, inputVars, runVars, sumVars, auditVars, adminVars>>

\* "Accedi" with another PIN: lines 258-261
DoctorLoginRefused(s) ==
    /\ pc = "doctor"
    /\ doc_pc[s] = "idle"
    /\ ~doctor_auth_ok[s]
    /\ \E doctor \in LoginDoctors, pin \in PinTexts :
          /\ ~PinAccepted(doctor, pin)
          /\ login_pin' = [login_pin EXCEPT ![s] = pin]
    /\ DocRunEnds(s, "login_refused")
    /\ UNCHANGED <<store, doctor_auth_ok, doctor_name, doctor_selected_months, doc_conversions>>
    /\ UNCHANGED <<normVars, inputVars, runVars, sumVars, auditVars, adminVars>>

\* "Esci / cambia medico": lines 234-241
DoctorLogout(s) ==
    /\ pc = "doctor"
    /\ doc_pc[s] = "idle"
    /\ doctor_auth_ok[s]
    /\ doctor_auth_ok' = [doctor_auth_ok EXCEPT ![s] = FALSE]
    /\ doctor_name' = [doctor_name EXCEPT ![s] = ""]
    /\ doctor_selected_months' = [doctor_selected_months EXCEPT ![s] = {}]
    /\ DocRunEnds(s, "logged_out")
    /\ UNCHANGED <<store, doc_conversions>>
    /\ login_pin' = [login_pin EXCEPT ![s] = ""]
    /\ UNCHANGED <<normVars, inputVars, runVars, sumVars, auditVars, adminVars>>

\* a rerun that leaves no month selected: lines 277-305
DoctorNoMonths(s) ==
    /\ pc = "doctor"
    /\ doc_pc[s] = "idle"
    /\ doctor_auth_ok[s]
    /\ \E btn \in DoctorButtons, cur \in DoctorMonths :
          /\ SelectedMonths(doctor_selected_months[s], btn, cur) = {}
          /\ doctor_selected_months' = [doctor_selected_months EXCEPT ![s] = {}]
    /\ DocRunEnds(s, "no_months")
    /\ UNCHANGED <<store, doctor_auth_ok, doctor_name, doc_conversions>>
    /\ login_pin' = [login_pin EXCEPT ![s] = ""]
    /\ UNCHANGED <<normVars, inputVars, runVars, sumVars, auditVars, adminVars>>

\* a rerun with months selected reads the store: lines 277-311
DoctorLoad(s) ==
    /\ pc = "doctor"
    /\ doc_pc[s] = "idle"
    /\ doctor_auth_ok[s]
    /\ \E btn \in DoctorButtons, cur \in DoctorMonths :
          LET selected == SelectedMonths(doctor_selected_months[s], btn, cur)
          IN  /\ selected # {}
              /\ doctor_selected_months' = [doctor_selected_months EXCEPT ![s] = selected]
              /\ doc_btn' = [doc_btn EXCEPT ![s] = btn]
    /\ store_rows' = [store_rows EXCEPT ![s] = load_store_from_github(store).rows]
    /\ store_sha' = [store_sha EXCEPT ![s] = load_store_from_github(store).sha]
    /\ doc_pc' = [doc_pc EXCEPT ![s] = "loaded"]
    /\ doc_outcome' = [doc_outcome EXCEPT ![s] = ""]
    /\ UNCHANGED <<store, doctor_auth_ok, doctor_name, edited_by_month, doc_conversions>>
    /\ login_pin' = [login_pin EXCEPT ![s] = ""]
    /\ UNCHANGED <<normVars, inputVars, runVars, sumVars, auditVars, adminVars>>

\* load_store_from_github raises: lines 312-314
DoctorLoadFails(s) ==
    /\ pc = "doctor"
    /\ doc_pc[s] = "idle"
    /\ doctor_auth_ok[s]
    /\ \E btn \in DoctorButtons, cur \in DoctorMonths :
          LET selected == SelectedMonths(doctor_selected_months[s], btn, cur)
          IN  /\ selected # {}
              /\ doctor_selected_months' = [doctor_selected_months EXCEPT ![s] = selected]
    /\ DocRunEnds(s, "load_error")
    /\ UNCHANGED <<store, doctor_auth_ok, doctor_name, doc_conversions>>
    /\ login_pin' = [login_pin EXCEPT ![s] = ""]
    /\ UNCHANGED <<normVars, inputVars, runVars, sumVars, auditVars, adminVars>>

\* the tabs and their editors: lines 318-362; the run ends here unless "Salva" was pressed
DoctorDisplay(s) ==
    /\ pc = "doctor"
    /\ doc_pc[s] = "loaded"
    /\ LET doctor == doctor_name[s]
           selected == doctor_selected_months[s]
       IN  /\ store' = StoreAfterTabs(store, doctor, selected)
           /\ doc_conversions' = [doc_conversions EXCEPT
                                     ![s] = ConversionsShown(store_rows[s], doctor, selected)]
           /\ IF doc_btn[s] = "save"
              THEN /\ \E pick \in [selected -> 1..3] :
                         edited_by_month' = [edited_by_month EXCEPT ![s] =
                             [mm \in selected |->
                                 EditorChoice(DisplayRows(store_rows[s], doctor, mm), pick[mm])]]
                   /\ doc_pc' = [doc_pc EXCEPT ![s] = "saving"]
                   /\ UNCHANGED <<doc_btn, store_rows, store_sha, doc_outcome>>
              ELSE DocRunEnds(s, "shown")
    /\ UNCHANGED <<doctor_auth_ok, doctor_name, doctor_selected_months>>
    /\ login_pin' = [login_pin EXCEPT ![s] = ""]
    /\ UNCHANGED <<normVars, inputVars, runVars, sumVars, auditVars, adminVars>>

\* "Salva" with a dated row in an editor: line 381 raises, nothing is written
DoctorSaveCrash(s) ==
    /\ pc = "doctor"
    /\ doc_pc[s] = "saving"
    /\ NewRows(store_rows[s], doctor_name[s], doctor_selected_months[s],
               edited_by_month[s]).raised
    /\ DocRunEnds(s, "crash")
    /\ UNCHANGED <<store, doctor_auth_ok, doctor_name, doctor_selected_months, doc_conversions>>
    /\ login_pin' = [login_pin EXCEPT ![s] = ""]
    /\ UNCHANGED <<normVars, inputVars, runVars, sumVars, auditVars, adminVars>>

\* "Salva": lines 370-396, the write answered by the store
DoctorSave(s) ==
    /\ pc = "doctor"
    /\ doc_pc[s] = "saving"
    /\ LET new_rows == NewRows(store_rows[s], doctor_name[s], doctor_selected_months[s],
                               edited_by_month[s])
           put == save_store_to_github(store, new_rows.rows, store_sha[s])
       IN  /\ ~new_rows.raised
           /\ store' = put.store
           /\ DocRunEnds(s, IF put.ok THEN "saved" ELSE "save_conflict")
    /\ UNCHANGED <<doctor_auth_ok, doctor_name, doctor_selected_months, doc_conversions>>
    /\ login_pin' = [login_pin EXCEPT ![s] = ""]
    /\ UNCHANGED <<normVars, inputVars, runVars, sumVars, auditVars, adminVars>>

\* "Salva": the write fails for another reason (network, token): lines 391-396
DoctorSaveFails(s) ==
    /\ pc = "doctor"
    /\ doc_pc[s] = "saving"
    /\ ~NewRows(store_rows[s], doctor_name[s], doctor_selected_months[s],
                edited_by_month[s]).raised
    /\ DocRunEnds(s, "save_failed")
    /\ UNCHANGED <<store, doctor_auth_ok, doctor_name, doctor_selected_months, doc_conversions>>
    /\ login_pin' = [login_pin EXCEPT ![s] = ""]
    /\ UNCHANGED <<normVars, inputVars, runVars, sumVars, auditVars, adminVars>>

(***************************************************************************)
(* The admin flow of streamlit_app_ui.py, lines 401-433: one rerun up to   *)
(* the generation controls.                                                *)
(***************************************************************************)
AdminRerun(auth, typed, outcome) ==
    /\ pc = "doctor"
    /\ admin_auth_ok' = auth
    /\ admin_pin_typed' = typed
    /\ admin_outcome' = outcome
    /\ UNCHANGED <<admin_secret, normVars, inputVars, runVars, sumVars, auditVars, docVars>>

\* no admin PIN in the secrets: st.error, st.stop (lines 403-406)
AdminNotConfigured ==
    /\ _get_admin_pin(admin_secret) = ""
    /\ AdminRerun(admin_auth_ok, "", "not_configured")

\* the form is drawn and not submitted: st.stop (lines 412-418)
AdminForm ==
    /\ _get_admin_pin(admin_secret) # ""
    /\ ~admin_auth_ok
    /\ AdminRerun(FALSE, admin_pin_typed, "form")

\* the form is submitted with another PIN: st.error, st.stop (lines 419-421)
AdminRefused ==
    /\ _get_admin_pin(admin_secret) # ""
    /\ ~admin_auth_ok
    /\ \E pin \in AdminPinTexts :
          /\ AdminPinRefused(pin, _get_admin_pin(admin_secret))
          /\ AdminRerun(FALSE, pin, "refused")

\* the form is submitted with the PIN: admin_auth_ok = True, st.rerun (lines 423-425)
AdminUnlock ==
    /\ _get_admin_pin(admin_secret) # ""
    /\ ~admin_auth_ok
    /\ \E pin \in AdminPinTexts :
          /\ ~AdminPinRefused(pin, _get_admin_pin(admin_secret))
          /\ AdminRerun(TRUE, pin, "unlocked")

\* "Esci (Admin)": admin_auth_ok = False, st.rerun (lines 427-431)
AdminLogout ==
    /\ _get_admin_pin(admin_secret) # ""
    /\ admin_auth_ok
    /\ AdminRerun(FALSE, "", "logged_out")

\* the run goes past the gate to the generation controls (line 433 on)
AdminControls ==
    /\ _get_admin_pin(admin_secret) # ""
    /\ admin_auth_ok
    /\ AdminRerun(TRUE, "", "controls")

Next ==
    \/ ValidateStops \/ ValidateOk \/ PrepareOk \/ PrepareRaises
    \/ ExtractSkip \/ ExtractRaises \/ ExtractOk \/ Guard \/ Merge
    \/ GenerateOk \/ GenerateRaises \/ Audit \/ ShowError \/ ShowSuccess
    \/ UiExtractSkip \/ UiExtractOk \/ UiExtractRaises \/ UiManual
    \/ UiIdle \/ UiPrepareRaises \/ UiGenerateOk \/ UiGenerateRaises

NextNorm == Normalize \/ Renormalize

\* the run handler of streamlit_app.py alone
NextApp ==
    \/ ValidateStops \/ ValidateOk \/ PrepareOk \/ PrepareRaises
    \/ ExtractSkip \/ ExtractRaises \/ ExtractOk \/ Guard \/ Merge
    \/ GenerateOk \/ GenerateRaises \/ Audit \/ ShowError \/ ShowSuccess

\* _summarize_stats applied to the stats
NextSum == Summarize

\* generation runs over many lists and texts, and few dates
Spec == Init /\ [][Next]_vars

\* generation runs over many periods and last dates, and few lists
SpecDates == InitDates /\ [][Next]_vars

\* normalize_fascia over the fascia inputs
SpecNorm == InitNorm /\ [][NextNorm]_vars

\* runs of streamlit_app.py from the first line of the handler, over every form,
\* sink outcome and returned stats, and few carryover inputs
SpecRun == InitRunAll /\ [][NextApp]_vars

\* _summarize_stats over the stats inputs
SpecSum == InitSum /\ [][NextSum]_vars

NextDoctor ==
    \E s \in Sessions :
        \/ DoctorLogin(s) \/ DoctorLoginRefused(s) \/ DoctorLogout(s)
        \/ DoctorNoMonths(s) \/ DoctorLoad(s) \/ DoctorLoadFails(s)
        \/ DoctorDisplay(s)
        \/ DoctorSaveCrash(s) \/ DoctorSave(s) \/ DoctorSaveFails(s)

\* the doctor flow of streamlit_app_ui.py with two sessions on one store
SpecDoctor == InitDoctor /\ [][NextDoctor]_vars

\* one session of streamlit_app_ui.py that switches between the doctor and the admin flow
InitGate ==
    /\ NormIdle
    /\ DocIdle(StoreChoices)
    /\ AdminIdle(AdminSecrets)
    /\ entry = "ui"
    /\ year = 2026
    /\ month = 2
    /\ prev_file = NoFile
    /\ manual_selected = <<>>
    /\ manual_text = ""
    /\ generate_btn = FALSE
    /\ pc = "doctor"
    /\ QuietEnv
    /\ Fresh
    /\ RunStart

NextGate ==
    \/ DoctorLogin(1) \/ DoctorLoginRefused(1) \/ DoctorLogout(1)
    \/ DoctorNoMonths(1) \/ DoctorLoad(1) \/ DoctorLoadFails(1)
    \/ DoctorDisplay(1)
    \/ DoctorSaveCrash(1) \/ DoctorSave(1) \/ DoctorSaveFails(1)
    \/ AdminNotConfigured \/ AdminForm \/ AdminRefused \/ AdminUnlock
    \/ AdminLogout \/ AdminControls

SpecGate == InitGate /\ [][NextGate]_vars

(***************************************************************************)
(* Vocabulary of the properties.                                           *)
(***************************************************************************)
\* the Day-1 list of the period being generated
PeriodBlock == IF carryover_by_month.has THEN carryover_by_month.block ELSE carry.block

IsPrefix(a, b) == Len(a) <= Len(b) /\ SubSeq(b, 1, Len(a)) = a

NoDup(seq) == \A i, j \in 1..Len(seq) : i # j => seq[i] # seq[j]

FirstIndex(seq, x) == CHOOSE i \in 1..Len(seq) :
                        seq[i] = x /\ \A j \in 1..(i - 1) : seq[j] # x

\* the day before the first day of a period, by the calendar
DayBeforeFirst(y, m) ==
    IF m = 1 THEN MkDate(y - 1, 12, 31) ELSE MkDate(y, m - 1, DaysInMonth(y, m - 1))

LastDateAbsent == prev_file.last_date.isNone \/ prev_file.last_date.str = ""

LastDateParsed == FromIso(prev_file.last_date.str)

\* the extracted record has a valid last date that is not the day before the period
NotContiguous ==
    /\ prev_file.kind = "ok"
    /\ ~LastDateAbsent
    /\ LastDateParsed.ok
    /\ LastDateParsed.date # DayBeforeFirst(year, month)

\* t is s without its leading and trailing whitespace
IsTrimOf(t, s) ==
    \E a \in 1..(Len(s) + 1), b \in 0..Len(s) :
        /\ a <= b + 1
        /\ t = SubSeq(s, a, b)
        /\ \A i \in 1..(a - 1) : IsSpace(Char(s, i))
        /\ \A i \in (b + 1)..Len(s) : IsSpace(Char(s, i))
        /\ (a <= b => ~IsSpace(Char(s, a)) /\ ~IsSpace(Char(s, b)))

\* the non-empty pieces of a text
SubStrings(s) == {SubSeq(s, q[1], q[2]) :
                    q \in {r \in (1..Len(s)) \X (1..Len(s)) : r[1] <= r[2]}}

\* the pieces of a text between its commas
CommaSegments(text) ==
    {SubSeq(text, q[1], q[2]) :
       q \in {r \in (1..(Len(text) + 1)) \X (0..Len(text)) :
                /\ r[1] <= r[2] + 1
                /\ \A i \in r[1]..r[2] : Char(text, i) # ","
                /\ (r[1] = 1 \/ Char(text, r[1] - 1) = ",")
                /\ (r[2] = Len(text) \/ Char(text, r[2] + 1) = ",")}}

ManualSources == Range(manual_selected) \cup CommaSegments(manual_text)

\* the names entered by hand: every source trimmed, the empty ones dropped
ManualNameSet ==
    {t \in UNION {SubStrings(x) : x \in ManualSources} :
       \E x \in ManualSources : IsTrimOf(t, x)}

AppAfterGenerate ==
    {"audit", "show_error", "show_success", "audit_aborted", "results_aborted",
     "success", "gen_error"}
AppAfterMerge == {"generate"} \cup AppAfterGenerate
AppAfterGuard == {"merge"} \cup AppAfterMerge

\* the extracted list as it reaches the merge step of streamlit_app.py
ListAtMerge == IF prev_file.kind = "ok" /\ ~warned THEN prev_file.block ELSE <<>>

(***************************************************************************)
(* C1. Contiguity guard (streamlit_app.py): when the extracted record has  *)
(* a valid last date other than the day before the first day of the        *)
(* period, and no manual name is entered, the period's Day-1 list is empty *)
(* from the guard on whatever the extractor reported, the warning was      *)
(* shown, the run is not aborted, and generate_schedule is called with the *)
(* empty list.                                                             *)
(***************************************************************************)
C1_ContiguityGuard ==
    (entry = "app" /\ NotContiguous /\ ManualNameSet = {}) =>
        /\ pc # "aborted"
        /\ (pc \in AppAfterGuard => carryover_by_month = Record(<<>>) /\ warned)
        /\ (pc \in AppAfterGenerate => gen_called /\ gen_arg = Record(<<>>))

\* March of a leap year after a file that ends on February 28
C1_Witness ==
    /\ entry = "app" /\ NotContiguous /\ ManualNameSet = {}
    /\ year = 2024 /\ month = 3 /\ prev_file.last_date.str = "2024-02-28"
    /\ Len(prev_file.block) > 0
    /\ pc = "audit" /\ gen_called /\ gen_arg = Record(<<>>) /\ warned

(***************************************************************************)
(* C2. Through either entry point, generate_schedule receives a Day-1      *)
(* exclusion taken from the extracted record only if the record's last     *)
(* date is the day before the period (or the record has no usable last     *)
(* date): after a file that is not contiguous, every name passed was       *)
(* entered by hand.                                                        *)
(***************************************************************************)
C2_StaleFileNeverBlocks ==
    (gen_called /\ NotContiguous) => Range(gen_arg.block) \subseteq Range(manual_names)

(***************************************************************************)
(* C3. Merge result (streamlit_app.py): the manual names are the           *)
(* multiselect names followed by the comma-separated names of the free     *)
(* text, trimmed, without the empty ones, each once in first-seen order;   *)
(* the period's list after the merge is the list that reached the merge,   *)
(* in its order, followed by the manual names it did not hold, in order.   *)
(***************************************************************************)
C3_MergeResult ==
    /\ (entry = "app" /\ pc = "generate") =>
          LET raw == ManualRaw(manual_selected, manual_text)
          IN  /\ NoDup(manual_names)
              /\ Range(manual_names) = ManualNameSet
              /\ \A i, j \in 1..Len(manual_names) :
                   i < j => FirstIndex(raw, manual_names[i]) < FirstIndex(raw, manual_names[j])
    /\ (entry = "app" /\ pc \in AppAfterMerge) =>
          LET NotHeld(n) == n \notin Range(ListAtMerge)
          IN  PeriodBlock = ListAtMerge \o SelectSeq(manual_names, NotHeld)
    /\ (entry = "app" /\ pc \in AppAfterGenerate) => gen_arg = carryover_by_month

\* manual [A, B, A] into existing [B, C] gives [B, C, A]
C3_Witness ==
    /\ entry = "app" /\ pc = "generate"
    /\ manual_selected = <<"A", "B ">> /\ manual_text = "A"
    /\ ListAtMerge = <<"B", "C">>
    /\ manual_names = <<"A", "B">>
    /\ PeriodBlock = <<"B", "C", "A">>

(***************************************************************************)
(* C4. Guard skipped (streamlit_app.py): when the extracted record has no  *)
(* last date, or one that is no date, the extracted list reaches the merge *)
(* step unchanged, no contiguity warning is shown and the run goes on.     *)
(***************************************************************************)
GuardSkippedCase ==
    /\ entry = "app"
    /\ prev_file.kind = "ok"
    /\ (LastDateAbsent \/ ~LastDateParsed.ok)

C4_GuardSkipped ==
    GuardSkippedCase =>
        /\ pc # "aborted"
        /\ ~warned
        /\ (pc = "merge" => carryover_by_month = Record(prev_file.block))
        /\ (pc \in AppAfterMerge => IsPrefix(prev_file.block, carryover_by_month.block))
        /\ (pc \in AppAfterGenerate => gen_called)

\* a file whose last date is February 29 of a year that has none
C4_Witness ==
    /\ GuardSkippedCase
    /\ prev_file.last_date.str = "2025-02-29"
    /\ pc = "merge"
    /\ carryover_by_month = Record(<<"B", "C">>)

(***************************************************************************)
(* C5. In both entry points, when the extractor fails on the supplied file *)
(* the run is a hard error: no manual name is merged into a record,        *)
(* generate_schedule is not called and no audit event is written.          *)
(***************************************************************************)
C5_ExtractionFailureIsHard ==
    prev_file.kind = "bad" =>
        /\ ~gen_called
        /\ ~carryover_by_month.has
        /\ audit_attempts = 0

(***************************************************************************)
(* C6. The Day-1 list handed to generate_schedule holds no name twice,     *)
(* also when the extractor's list repeats a name.                          *)
(***************************************************************************)
C6_NoDuplicateHandedOver == gen_called => NoDup(gen_arg.block)

(***************************************************************************)
(* C7. Every step of a run leaves the names already in the period's list   *)
(* in place and in order, except the contiguity-guard step, which empties  *)
(* the list.                                                               *)
(***************************************************************************)
C7_ListOnlyGrows ==
    [][\/ IsPrefix(PeriodBlock, PeriodBlock')
       \/ (pc = "guard" /\ Len(PeriodBlock') = 0)]_vars

\* a merge has appended a manual name behind the extracted ones
C7_Witness ==
    /\ pc \in (AppAfterMerge \cup {"ui_generate"})
    /\ prev_file.kind = "ok"
    /\ Len(prev_file.block) > 0
    /\ IsPrefix(prev_file.block, PeriodBlock)
    /\ Len(PeriodBlock) > Len(prev_file.block)

(***************************************************************************)
(* C8. Source order (streamlit_app.py): merging the manual names into the  *)
(* extracted list and merging the extracted names into the manual-only     *)
(* list give the same names, as sets.                                      *)
(***************************************************************************)
C8_SourceOrderCommutes ==
    (entry = "app" /\ pc \in AppAfterMerge /\ prev_file.kind = "ok"
       /\ Len(manual_names) > 0) =>
        Range(PeriodBlock) = Range(MergeNames(manual_names, ListAtMerge))

\* the two orders differ as lists and agree as sets
C8_Witness ==
    /\ entry = "app" /\ pc = "generate" /\ prev_file.kind = "ok"
    /\ PeriodBlock = <<"B", "C", "A">>
    /\ MergeNames(manual_names, ListAtMerge) = <<"A", "B", "C">>

(***************************************************************************)
(* C9. normalize_fascia returns unknown only together with changed, and    *)
(* for None, empty or whitespace-only input exactly ("", FALSE, FALSE).    *)
(***************************************************************************)
IsBlankVal(v) == v.isNone \/ \A i \in 1..Len(v.str) : IsSpace(Char(v.str, i))

C9_NormalizationInvariant ==
    fascia_pc = "out" =>
        /\ (fascia_res.unknown => fascia_res.changed)
        /\ (IsBlankVal(fascia_val) => fascia_res = NormResult("", FALSE, FALSE))

\* an unrecognised value, flagged unknown and changed
C9_Witness ==
    /\ fascia_pc = "out"
    /\ fascia_val = StrVal(" XYZ")
    /\ fascia_res.unknown /\ fascia_res.changed

(***************************************************************************)
(* C10. Idempotence: normalising the canonical value that normalize_fascia *)
(* returned gives that same value, with changed and unknown both false.    *)
(***************************************************************************)
C10_Idempotent ==
    (fascia_pc = "out" /\ fascia_pass = 2) =>
        fascia_res = NormResult(fascia_val.str, FALSE, FALSE)

\* the second pass over "Diurno"
C10_Witness ==
    /\ fascia_pc = "out" /\ fascia_pass = 2
    /\ fascia_val = StrVal("Diurno")
    /\ fascia_res = NormResult("Diurno", FALSE, FALSE)

(***************************************************************************)
(* The exact-match table and the heuristic rules, as the specification     *)
(* lists them: per category its fragments and its whole-key codes.         *)
(***************************************************************************)
RuleOrder == <<"Tutto il giorno", "Diurno", "Mattina", "Pomeriggio", "Notte">>

RuleFragments(cat) ==
    CASE cat = "Tutto il giorno" -> {"tutto", "all", "intera"}
      [] cat = "Diurno" -> {"diurn", "daytime"}
      [] cat = "Mattina" -> {"matt", "morning"}
      [] cat = "Pomeriggio" -> {"pome", "pom", "afternoon"}
      [] OTHER -> {"nott", "night"}

RuleCodes(cat) ==
    CASE cat = "Tutto il giorno" -> {}
      [] cat = "Diurno" -> {"d"}
      [] cat = "Mattina" -> {"am", "a.m."}
      [] cat = "Pomeriggio" -> {"pm", "p.m."}
      [] OTHER -> {"n"}

RuleHits(cat, key) ==
    (\E f \in RuleFragments(cat) : Contains(key, f)) \/ key \in RuleCodes(cat)

ExactTable ==
    {"mattina", "pomeriggio", "notte", "diurno",
     "tutto il giorno", "tutto giorno", "all day", "giornata intera"}

\* the folded, collapsed key of the value being normalised
FasciaKeyOfInput == FasciaKey(Strip(fascia_val.str))

NoExactMatch == ~IsBlankVal(fascia_val) /\ FasciaKeyOfInput \notin ExactTable

(***************************************************************************)
(* C11. Fail-safe: for every non-blank input the canonical value returned  *)
(* by normalize_fascia is one of the five canonical values, never empty;   *)
(* an input that hits neither the exact-match table nor any heuristic rule *)
(* returns ("Tutto il giorno", changed, unknown).                          *)
(***************************************************************************)
C11_FailSafe ==
    (fascia_pc = "out" /\ ~IsBlankVal(fascia_val)) =>
        /\ fascia_res.canon \in Range(FASCIA_OPTIONS)
        /\ fascia_res.canon # ""
        /\ \A key \in {FasciaKeyOfInput} :
              (key \notin ExactTable /\ \A i \in 1..Len(RuleOrder) : ~RuleHits(RuleOrder[i], key))
                 => fascia_res = NormResult("Tutto il giorno", TRUE, TRUE)

\* two words that no table and no rule knows
C11_Witness ==
    /\ fascia_pc = "out" /\ fascia_pass = 1
    /\ fascia_val = StrVal("sera xyz")
    /\ fascia_res = NormResult("Tutto il giorno", TRUE, TRUE)

(***************************************************************************)
(* C12. Heuristic rule order: for an input with no exact-table match the   *)
(* result is the category of the first rule that matches, in the order     *)
(* FullDay, Daytime, Morning, Afternoon, Night, with changed true and      *)
(* unknown false.                                                          *)
(***************************************************************************)
C12_RuleOrder ==
    (fascia_pc = "out" /\ NoExactMatch) =>
        \A key \in {FasciaKeyOfInput} :
            \A i \in 1..Len(RuleOrder) :
                (/\ RuleHits(RuleOrder[i], key)
                 /\ \A j \in 1..(i - 1) : ~RuleHits(RuleOrder[j], key))
                    => fascia_res = NormResult(RuleOrder[i], TRUE, FALSE)

\* fragments of FullDay and of Morning in one input: FullDay wins
C12_Witness ==
    /\ fascia_pc = "out" /\ fascia_pass = 1
    /\ fascia_val = StrVal("Tutto matt")
    /\ fascia_res = NormResult("Tutto il giorno", TRUE, FALSE)

(***************************************************************************)
(* Vocabulary of the summary properties.                                   *)
(***************************************************************************)
\* the items of stats["months"] when stats and stats["months"] are dicts
StatsItems ==
    IF stats.isdict /\ stats.months.t = "dict" THEN stats.months.items ELSE <<>>

ItemKeys(q) == [i \in 1..Len(q) |-> q[i][1]]

\* the period's value is a record whose solver_error is present and not null
HasSolverError(item) ==
    item[2].isdict /\ item[2].solver_error.t \notin {"absent", "none"}

\* the status is a text that contains the infeasibility marker, whatever the case
HasMarker(status) == status.t = "str" /\ Contains(Casefold(status.s), "infeas")

(***************************************************************************)
(* C13. _summarize_stats is total: for every input it returns a record and *)
(* never raises, and for an input that is not a mapping it returns exactly *)
(* {status: "UNKNOWN"}.                                                    *)
(***************************************************************************)
C13_SummarizeTotal ==
    sum_pc = "out" =>
        /\ ~summary.raised
        /\ (~stats.isdict =>
               summary = Summary(FALSE, FALSE, PyStr("UNKNOWN"), EmptyAcc))

(***************************************************************************)
(* C14. greedy_months holds a period key of stats.months if and only if    *)
(* that period's solver_error is non-null, each key once, in the iteration *)
(* order of stats.months.                                                  *)
(***************************************************************************)
C14_GreedyExact ==
    (sum_pc = "out" /\ summary.full) =>
        summary.greedy_months = ItemKeys(SelectSeq(StatsItems, HasSolverError))

(***************************************************************************)
(* C15. infeasible_months holds a period key if and only if the status     *)
(* recorded for that period in the returned month summary contains the     *)
(* infeasibility marker, case-insensitively.                               *)
(***************************************************************************)
C15_InfeasibleExact ==
    (sum_pc = "out" /\ summary.full) =>
        /\ Range(summary.infeasible_months) \subseteq Range(ItemKeys(summary.months))
        /\ \A i \in 1..Len(summary.months) :
              (summary.months[i][1] \in Range(summary.infeasible_months))
                  <=> HasMarker(summary.months[i][2].status)

(***************************************************************************)
(* C16. When generate_schedule raises, the failure event (result error,    *)
(* error type, traceback cut to TracebackMax) is built and one send to the *)
(* audit sink is attempted before the error is shown, and the run stops    *)
(* there: no success message, no download.                                 *)
(***************************************************************************)
C16_FailureOrdering ==
    (entry = "app" /\ gen_raised) =>
        /\ pc \in {"audit", "show_error", "gen_error"}
        /\ (pc = "audit" => audit_attempts = 0 /\ error_shown = "")
        /\ (pc \in {"show_error", "gen_error"} =>
               /\ audit_attempts = 1
               /\ event.result = "error"
               /\ event.error_type # ""
               /\ event.tb_len = Min(tb_len, TracebackMax))
        /\ (pc = "show_error" => error_shown = "")
        /\ (error_shown # "" =>
               /\ pc = "gen_error"
               /\ error_shown = "generation"
               /\ traceback_shown = event.tb_len
               /\ traceback_shown <= TracebackMax)
        /\ ~success_shown
        /\ ~download_offered

\* a traceback longer than the limit, a sink that refuses the event
C16_Witness ==
    /\ entry = "app" /\ gen_raised /\ pc = "gen_error"
    /\ tb_len > TracebackMax /\ traceback_shown = TracebackMax
    /\ sink = "http_error" /\ audit_attempts = 1
    /\ error_shown = "generation"

(***************************************************************************)
(* C17. A failure of the audit sink is never fatal: _github_audit_log      *)
(* returns (False, message) and does not raise, and the run goes on to the *)
(* outcome its event names, success with the download or the generation    *)
(* error, as it does when the sink accepts the event.                      *)
(***************************************************************************)
C17_SinkNeverFatal ==
    (entry = "app" /\ audit_attempts > 0) =>
        /\ ~audit_result.raised
        /\ pc # "audit_aborted"
        /\ (audit_result.ok <=> sink_posts = 1)
        /\ ((sink # "ok" \/ ~Serializable(event)) =>
               ~audit_result.ok /\ audit_result.msg # "")
        /\ (event.result = "ok" => pc \in {"show_success", "success", "results_aborted"})
        /\ (event.result = "error" => pc \in {"show_error", "gen_error"})
        /\ (pc = "success" => success_shown /\ download_offered /\ error_shown = "")
        /\ (pc = "gen_error" => error_shown = "generation" /\ ~success_shown)

\* the sink call fails with an exception and the run still ends in success
C17_Witness ==
    /\ entry = "app" /\ pc = "success" /\ sink = "exception"
    /\ audit_attempts = 1 /\ ~audit_result.ok /\ caption_shown
    /\ success_shown /\ download_offered

WriteStep(s) ==
    /\ doc_pc[s] = "saving"
    /\ doc_pc'[s] = "idle"
    /\ doc_outcome'[s] \in {"saved", "save_conflict"}

\* the store changed since session s read it
Stale(s) == CurrentSha(store) # store_sha[s]

\* C19: a save writes with the token read in the same run; when the store changed
\* between that read and the write, the write is refused, the store keeps the other
\* session's content and the user is shown an error, never "saved".
C19_OptimisticConcurrency ==
    [][\A s \in Sessions :
          /\ doc_pc'[s] \in {"loaded", "saving"} =>
                /\ store_sha'[s].none => store_rows'[s] = <<>>
                /\ ~store_sha'[s].none => store_sha'[s].of = store_rows'[s]
          /\ (doc_pc[s] = "idle" /\ doc_pc'[s] = "loaded") =>
                store_sha'[s] = CurrentSha(store)
          /\ (doc_pc[s] = "loaded" /\ doc_pc'[s] = "saving") =>
                store_sha'[s] = store_sha[s]
          /\ (WriteStep(s) /\ Stale(s)) =>
                /\ store' = store
                /\ doc_outcome'[s] = "save_conflict"
          /\ (WriteStep(s) /\ ~Stale(s)) =>
                /\ doc_outcome'[s] = "saved"
                /\ store'.exists]_vars

\* C19 witness: a session was refused because the other one had saved in between,
\* and the store holds what the other one wrote.
C19_Witness ==
    \E s, o \in Sessions :
        /\ s # o
        /\ doc_outcome[s] = "save_conflict"
        /\ doc_outcome[o] = "saved"
        /\ store.exists

\* C20: the store changes only in the save step of a run where "Salva" was pressed.
C20_DisplayNeverWrites ==
    [][store' # store =>
          \E s \in Sessions :
              /\ doc_pc[s] = "saving"
              /\ doc_btn[s] = "save"
              /\ doc_outcome'[s] = "saved"]_vars

\* C20 witness: legacy rows were shown normalised in a run without "Salva", the
\* table of conversions was shown, and the store still holds the legacy text.
C20_Witness ==
    \E s \in Sessions :
        /\ doc_outcome[s] = "shown"
        /\ doc_conversions[s] > 0
        /\ store.exists
        /\ \E i \in 1..Len(store.rows) :
              /\ store.rows[i].doctor = doctor_name[s]
              /\ store.rows[i].shift = "matt"
              /\ normalize_fascia(StrVal("matt")).canon = "Mattina"

(***************************************************************************)
(* C21. Guard and manual names in one run (streamlit_app.py): after a file *)
(* that is not contiguous with the period, when manual names are entered,  *)
(* the list handed to generate_schedule is exactly the manual names, each  *)
(* once, in first-seen order; a name the extractor reported is in it only  *)
(* if it was also entered by hand.                                         *)
(***************************************************************************)
C21_GuardThenManual ==
    (entry = "app" /\ pc = "audit" /\ NotContiguous) =>
        \A names \in {ManualNameSet} :
            names # {} =>
                LET raw == ManualRaw(manual_selected, manual_text)
                    blk == gen_arg.block
                IN  /\ gen_called /\ warned /\ gen_arg.has
                    /\ NoDup(blk)
                    /\ Range(blk) = names
                    /\ \A i, j \in 1..Len(blk) :
                          i < j => FirstIndex(raw, blk[i]) < FirstIndex(raw, blk[j])
                    /\ \A i \in 1..Len(prev_file.block) :
                          prev_file.block[i] \in Range(blk) => prev_file.block[i] \in names

\* the stale file reported [B, C]; B and A were entered by hand, B twice
C21_Witness ==
    /\ entry = "app" /\ pc = "audit" /\ NotContiguous
    /\ prev_file.block = <<"B", "C">>
    /\ manual_selected = <<"B ", "A">> /\ manual_text = "B"
    /\ warned
    /\ gen_called /\ gen_arg = Record(<<"B", "A">>)

\* the run handler of streamlit_app.py has ended, by its last line, st.stop or an exception
AppRunEnded == pc \in {"success", "gen_error", "results_aborted", "audit_aborted"}

\* the run was reported as a success: message, download, audit event with result ok
ReportedSuccess == success_shown /\ download_offered /\ event.result = "ok"

(***************************************************************************)
(* C22. A run that called generate_schedule is reported as successful      *)
(* (success message, download offered, audit event with result ok) if and  *)
(* only if generate_schedule returned without raising; a generation that   *)
(* returned is never reported as a generation error.                       *)
(***************************************************************************)
C22_SuccessIffReturned ==
    (entry = "app" /\ gen_called /\ AppRunEnded) =>
        /\ ReportedSuccess <=> ~gen_raised
        /\ error_shown = "generation" => gen_raised

\* the entries the save is to build from one editor: the rows with a date and a
\* non-empty fascia, each as (date, canonical fascia)
RECURSIVE EntriesOf(_)
EntriesOf(ed) ==
    IF Len(ed) = 0 THEN <<>>
    ELSE LET r == Head(ed)
             sh == normalize_fascia(StrVal(r.fascia)).canon
         IN  (IF r.isdate /\ sh # "" THEN <<[date |-> r.date, shift |-> sh]>> ELSE <<>>)
             \o EntriesOf(Tail(ed))

\* the store rows after the entries of every selected month replaced the doctor's rows
RECURSIVE RowsToSave(_, _, _, _)
RowsToSave(rows, doctor, months, ed) ==
    IF months = {} THEN rows
    ELSE LET mm == CHOOSE x \in months : \A y \in months : x <= y
         IN  RowsToSave(replace_doctor_month(rows, doctor, mm, EntriesOf(ed[mm])),
                        doctor, months \ {mm}, ed)

(***************************************************************************)
(* C23. When a logged-in doctor presses Save, the rows with a valid date   *)
(* and a non-empty fascia are handed to the store replacement as (date,    *)
(* canonical fascia) for the doctor and each selected month, the rows      *)
(* without a valid date are skipped, and the run goes on to the write and  *)
(* ends in "saved" or in a reported store error.                           *)
(***************************************************************************)
C23_SaveStoresRows ==
    [][\A s \in Sessions :
          (doc_pc[s] = "saving" /\ doc_pc'[s] = "idle") =>
              /\ doc_outcome'[s] \in {"saved", "save_conflict", "save_failed"}
              /\ doc_outcome'[s] = "saved" =>
                    store' = FileStore(RowsToSave(store_rows[s], doctor_name[s],
                                                  doctor_selected_months[s],
                                                  edited_by_month[s]))]_vars


\* session s reads the store in this step: load_store_from_github is called (line 310)
StoreReadBy(s) ==
    /\ doc_pc[s] = "idle"
    /\ doc_pc'[s] = "loaded" \/ doc_outcome'[s] = "load_error"

\* session s writes the store in this step: save_store_to_github is reached (line 388) or the
\* stored file changes
StoreWrittenBy(s) ==
    \/ doc_pc[s] = "saving" /\ doc_pc'[s] = "idle"
    \/ doc_pc[s] # "idle" /\ store' # store

\* C24: in every step of a session, the store is read or written in the doctor flow only while
\* doctor_auth_ok is true; doctor_auth_ok becomes true only on a submitted PIN that is not empty
\* and equals the PIN configured for the selected doctor; doctor_name is set exactly while
\* doctor_auth_ok is true; the admin controls are reached only while admin_auth_ok is true, and
\* admin_auth_ok becomes true only on submitting the configured, non-empty admin PIN.
C24_PinGates ==
    [][/\ \A s \in Sessions :
             /\ (StoreReadBy(s) \/ StoreWrittenBy(s)) => (doctor_auth_ok[s] /\ doctor_auth_ok'[s])
             /\ (~doctor_auth_ok[s] /\ doctor_auth_ok'[s]) =>
                    /\ login_pin'[s] # ""
                    /\ doctor_name'[s] \in DOMAIN DoctorPinSecrets
                    /\ login_pin'[s] = StrOf(DoctorPinSecrets[doctor_name'[s]])
             /\ (doctor_name[s] # "") <=> doctor_auth_ok[s]
             /\ (doctor_name'[s] # "") <=> doctor_auth_ok'[s]
       /\ admin_outcome' = "controls" => (admin_auth_ok /\ admin_auth_ok')
       /\ (~admin_auth_ok /\ admin_auth_ok') =>
              /\ admin_pin_typed' # ""
              /\ Truthy(admin_secret)
              /\ admin_pin_typed' = StrOf(admin_secret)]_vars

\* C24 witness: the doctor with the numeric PIN is logged in and has saved, and the admin
\* controls are reached behind a numeric admin PIN
C24_Witness ==
    /\ entry = "ui"
    /\ doctor_auth_ok[1]
    /\ doctor_name[1] = "B"
    /\ doc_outcome[1] = "saved"
    /\ admin_secret = PyInt("9")
    /\ admin_auth_ok
    /\ admin_outcome = "controls"

====
